---- MODULE Spec2Model ----
(***************************************************************************)
(* A model of the Selenium port of browser-use: the session/state manager  *)
(* (browser_use/browser/context.py), the DOM service                       *)
(* (browser_use/dom/service.py) and the controller's registered actions    *)
(* and batch executor (browser_use/controller/service.py), and of the     *)
(* launcher of the agent processes (run_agents.py).                        *)
(*                                                                         *)
(* The browser behind the WebDriver is the environment: the page it shows, *)
(* its session history, redirects, the effect of a click and the failure   *)
(* of a script are nondeterministic choices over small sets.               *)
(***************************************************************************)
EXTENDS Integers, Sequences, FiniteSets, TLC

(***************************************************************************)
(* Bounds of the model.                                                    *)
(***************************************************************************)
\* Objects (BrowserState instances and the DOM extractions they keep) allocated
\* in a run.
MaxObj == 5
\* Entries of the browser's session history of the active window.
MaxHist == 2
\* Open browser windows.
MaxTabs == 3
\* Actions in one multi_act batch.
MaxBatch == 2

(***************************************************************************)
(* URLs.  A URL is kept in its parsed form; a hostname is the sequence of  *)
(* its characters, <<>> when the URL has none (about:blank).               *)
(***************************************************************************)
HostAC == <<"a", ".", "c">>
HostEO == <<"e", ".", "o">>
HostGC == <<"g", ".", "c">>
HostSAC == <<"s", ".", "a", ".", "c">>

NoURL == [scheme |-> "", host |-> <<>>, path |-> ""]
BlankURL == [scheme |-> "about", host |-> <<>>, path |-> "blank"]
AllowedURL == [scheme |-> "https", host |-> HostAC, path |-> "/page"]
EvilURL == [scheme |-> "https", host |-> HostEO, path |-> "/"]
GoogleURL == [scheme |-> "https", host |-> HostGC, path |-> "/search"]
SubURL == [scheme |-> "https", host |-> HostSAC, path |-> "/"]

\* The URLs the planner's actions ask for.
RequestURLs == {AllowedURL, EvilURL}

\* The URLs navigate_to is called with.
NavigateURLs == {AllowedURL, EvilURL, SubURL, BlankURL}

\* The page a request for url may end on: the page itself, or the page it
\* redirects to.
Lands(url) == IF url = AllowedURL THEN {AllowedURL, EvilURL} ELSE {url}

\* str.lower on one character: "A" is the one capital written in a host.
Lower(ch) == IF ch = "A" THEN "a" ELSE ch

\* urlparse(url) raises ValueError ("Invalid IPv6 URL") when the network
\* location opens a bracket that it does not close.
UrlParseRaises(url) ==
    /\ \E k \in 1..Len(url.host) : url.host[k] = "["
    /\ \A k \in 1..Len(url.host) : url.host[k] # "]"

\* urlparse(url).hostname: the host in lower case, <<>> for None.
Hostname(url) == [k \in 1..Len(url.host) |-> Lower(url.host[k])]

\* str.endswith
EndsWith(s, suffix) ==
    /\ Len(suffix) <= Len(s)
    /\ SubSeq(s, Len(s) - Len(suffix) + 1, Len(s)) = suffix

\* The configurations of allowed_domains: None, or ['a.c'].
AllowedDomainsConfigs == {<<>>, <<HostAC>>}

\* A check that takes any hostname ending in an allowed domain.
IsUrlAllowedDotless(domains, url) ==
    IF domains = <<>> THEN TRUE
    ELSE IF UrlParseRaises(url) THEN TRUE
    ELSE IF Hostname(url) = <<>> THEN TRUE
    ELSE \E i \in 1..Len(domains) : EndsWith(Hostname(url), domains[i])

\* BrowserContext._is_url_allowed, with the configured list as a parameter:
\* an exception of the parsing is logged and the URL allowed.
IsUrlAllowed(domains, url) ==
    IF domains = <<>> THEN TRUE
    ELSE IF UrlParseRaises(url) THEN TRUE
    ELSE IF Hostname(url) = <<>> THEN TRUE
    ELSE \E i \in 1..Len(domains) :
            \/ Hostname(url) = domains[i]
            \/ EndsWith(Hostname(url), <<".">> \o domains[i])

(***************************************************************************)
(* The page.  Elems are the interactive elements a page can show, each     *)
(* identified by its path fingerprint; Rank is the order in which the      *)
(* in-page traversal meets them.                                           *)
(***************************************************************************)
Elems == {"e1", "e2"}
Rank(e) == IF e = "e1" THEN 1 ELSE 2

\* The interactive elements of a page right after it has loaded.
Content(url) == IF url = AllowedURL THEN {"e1"}
                ELSE IF url = EvilURL THEN {"e1", "e2"}
                ELSE IF url = GoogleURL THEN {"e2"}
                ELSE {}

RECURSIVE InOrder(_)
\* The elements of a set in traversal order.
InOrder(S) ==
    IF S = {} THEN <<>>
    ELSE LET first == CHOOSE e \in S : \A f \in S : Rank(e) <= Rank(f)
         IN  <<first>> \o InOrder(S \ {first})

\* buildDOMTree run on a page showing the elements page, as extraction number
\* ext: the tree has one node per interactive element, and the k-th of them in
\* traversal order carries highlight index k-1.
BuildDOMTree(page, ext) == [ext |-> ext, nodes |-> InOrder(page)]

\* A tree made of the synthetic root alone, built without an extraction.
EmptyRoot == [ext |-> 0, nodes |-> <<>>]

\* The element nodes of a tree, as objects: a node is the same object as
\* another only if both come from the same extraction.
TreeNodes(tree) == {[ext |-> tree.ext, el |-> tree.nodes[k]] : k \in 1..Len(tree.nodes)}

\* DomService._build_selector_map: the node with highlight index k is entry
\* k+1 of the sequence.
BuildSelectorMap(tree) == [k \in 1..Len(tree.nodes) |-> [ext |-> tree.ext, el |-> tree.nodes[k]]]

\* index in selector_map
HasIndex(selector_map, index) == index >= 0 /\ index < Len(selector_map)

\* e.hash.branch_path_hash for the nodes of a selector map
PathHashes(selector_map) == {selector_map[k].el : k \in 1..Len(selector_map)}

(***************************************************************************)
(* BrowserState and ActionResult.                                          *)
(***************************************************************************)
BrowserState(sid, tree, selector_map, url, tabs) ==
    [sid |-> sid, element_tree |-> tree, selector_map |-> selector_map,
     url |-> url, tabs |-> tabs]

\* No BrowserState (nothing returned).
NoState == BrowserState(0, EmptyRoot, <<>>, NoURL, 0)

\* BrowserContext._get_initial_state, allocated as object sid.
GetInitialState(sid) == BrowserState(sid, EmptyRoot, <<>>, NoURL, 0)

\* A log or result message: its template and the values put into it.
Msg(fmt, text, index) == [fmt |-> fmt, text |-> text, index |-> index]
NoMsg == Msg("", "", -1)

ActionResult(content, error, is_done) ==
    [extracted_content |-> content, error |-> error, is_done |-> is_done]
NoResult == ActionResult(NoMsg, "", FALSE)

\* A replay snippet: the snippet function and the values put into its text.
Snippet(kind, xpath, text) == [kind |-> kind, xpath |-> xpath, text |-> text]

(***************************************************************************)
(* State.                                                                  *)
(***************************************************************************)
(***************************************************************************)
(* run_agents: the constants of the launcher.                              *)
(***************************************************************************)
\* NUM_INSTANCES (30 in the script), scaled down.
NUM_INSTANCES == 3
\* MAX_CONCURRENT (5 in the script), scaled down so that a few instances
\* reach the limit.
MAX_CONCURRENT == 2
MAX_RETRIES == 2

\* An item of the dict pending: instance_id and its attempts so far.
Item(instance_id, attempts) == [instance_id |-> instance_id, attempts |-> attempts]

VARIABLES
    allowed_domains,    \* BrowserContextConfig.allowed_domains (<<>> for None)
    history,            \* the session history of the active window (driver)
    hpos,               \* the position of the current page in history
    page,               \* the interactive elements the current page shows
    window_handles,     \* len(driver.window_handles)
    current_handle,     \* the position in driver.window_handles of the window
                        \* the driver is switched to, counted from 0
    heap,               \* objects allocated so far (states and extractions)
    cached_state,       \* session.cached_state
    stale,              \* the page changed after cached_state was stored
    last,               \* the latest call of the core's interface, its outcome
    batch,              \* multi_act: the submitted actions
    check_for_new_elements, \* multi_act: the flag of the running batch
    cached_path_hashes, \* multi_act: the fingerprints captured at its start
    bi,                 \* multi_act: the loop index i
    results,            \* multi_act: the result list
    executed,           \* multi_act: for each executed action, i and the page then
    mpc,                \* multi_act: "idle", "loop", "returned", "raised" or
                        \* "cancelled"
    events,             \* multi_act: the callback's consultations and the
                        \* actions, in the order they happened
    out,                \* the latest element-level call (locate, click, select)
    frame_ctx,          \* the driver's execution context: 0 the top-level
                        \* document, k the k-th iframe
    scroll_y,           \* window.scrollY of the page the scroll actions act on
    driver,             \* Browser.driver: a WebDriver, 0 for None
    live,               \* the WebDrivers created and not quit
    created,            \* the WebDrivers created so far
    session,            \* BrowserContext.session: its driver, 0 for None
    tasks,              \* the tasks calling get_webdriver / get_session
    chrome,             \* the browser process on the debugging port: "down",
                        \* "starting" or "up"
    chrome_instance_path, \* BrowserConfig.chrome_instance_path is set
    pending,            \* run_agents.main: the dict pending, as the sequence
                        \* of its items in insertion order
    running,            \* run_agents.main: the list running
    procs,              \* the agent processes launched so far
    loop                \* run_agents.main: where the loop is

agentVars == <<pending, running, procs, loop>>
ctxVars == <<allowed_domains, agentVars, history, hpos, page, window_handles, current_handle, heap,
             cached_state, stale, last>>
batchVars == <<batch, check_for_new_elements, cached_path_hashes, bi, results,
               executed, mpc, events>>
elemVars == <<out, frame_ctx, scroll_y>>
browserVars == <<driver, live, created, session, tasks, chrome, chrome_instance_path>>
vars == <<allowed_domains, history, hpos, page, window_handles, current_handle, heap,
          cached_state, stale, last, batch, check_for_new_elements,
          cached_path_hashes, bi, results, executed, mpc, events, out,
          frame_ctx, scroll_y, driver, live, created, session, tasks, chrome,
          chrome_instance_path, pending, running, procs, loop>>

\* driver.current_url
CurrentURL == history[hpos]

\* What a call leaves in last when nothing else is said of it.
Outcome(op) ==
    [op |-> op,
     raised |-> "none",         \* the exception leaving the call
     caught |-> "none",         \* where _update_state failed and recovered
     why |-> "",                \* the error that occurred while acting
     ret |-> NoState,           \* the BrowserState returned
     result |-> NoResult,       \* the ActionResult returned
     pre_url |-> CurrentURL,    \* driver.current_url when the call began
     arg_url |-> NoURL,         \* the url argument
     driver_nav |-> FALSE,      \* a navigation was issued to the driver
     extractions |-> 0,         \* runs of the extraction script
     extract_threw |-> FALSE,   \* the extraction script threw
     streak |-> 0,              \* get_state calls in a row, this one included
     sensitive |-> FALSE,       \* has_sensitive_data
     text |-> "",               \* the text argument
     logged |-> {},             \* the messages logged
     snippet |-> {},            \* the replay snippets generated
     saved |-> "unset",         \* what became of the snippet file: "unset"
                                \* (no write attempted), "written" or "failed"
     steps |-> <<>>,            \* refresh_page, go_back, go_forward: what the
                                \* call did, in order
     index |-> -1,              \* the handle argument
     checked |-> "",            \* the element the map of the existence check
                                \* has for the handle
     node |-> ""]               \* the element get_dom_element_by_index gave

\* The state of the context and of the controller when the session has been
\* set up by BrowserContext._initialize_session, but for the element-level
\* call out.
InitState ==
    /\ allowed_domains \in AllowedDomainsConfigs
    /\ history = <<BlankURL>>
    /\ hpos = 1
    /\ page = {}
    /\ window_handles = 1
    /\ current_handle = 0
    /\ heap = 1
    /\ cached_state = GetInitialState(1)
    /\ stale = FALSE
    /\ last = [op |-> "init", raised |-> "none", caught |-> "none", why |-> "",
               ret |-> NoState,
               result |-> NoResult, pre_url |-> BlankURL, arg_url |-> NoURL,
               driver_nav |-> FALSE, extractions |-> 0, extract_threw |-> FALSE,
               streak |-> 0, sensitive |-> FALSE, text |-> "", logged |-> {},
               snippet |-> {}, saved |-> "unset", steps |-> <<>>,
               index |-> -1, checked |-> "", node |-> ""]
    /\ batch = <<>>
    /\ check_for_new_elements = FALSE
    /\ cached_path_hashes = {}
    /\ bi = 0
    /\ results = <<>>
    /\ executed = <<>>
    /\ mpc = "idle"
    /\ events = <<>>
    /\ frame_ctx = 0
    /\ scroll_y = 0
    /\ pending = [i \in 1..NUM_INSTANCES |-> Item(i - 1, 0)]
    /\ running = <<>>
    /\ procs = <<>>
    /\ loop = [pc |-> "while", copy |-> <<>>, k |-> 0]

\* The same with no element-level call made yet.
InitCore ==
    /\ InitState
    /\ out = [op |-> "none"]

\* BrowserContext._initialize_session on a freshly started standard browser:
\* the one WebDriver is held by the Browser and by the session.
Init ==
    /\ InitCore
    /\ driver = 1
    /\ live = {1}
    /\ created = 1
    /\ session = 1
    /\ tasks = <<>>
    /\ chrome = "down"
    /\ chrome_instance_path = FALSE

(***************************************************************************)
(* The driver.                                                             *)
(***************************************************************************)
\* The session history after land is appended to the entries up to the current
\* one: the browser keeps the newest MaxHist entries.
Pushed(land) ==
    LET all == SubSeq(history, 1, hpos) \o <<land>>
    IN  IF Len(all) > MaxHist THEN SubSeq(all, 2, Len(all)) ELSE all

\* driver.get(url), the browser ending on the page land.
DriverGet(land) ==
    /\ history' = Pushed(land)
    /\ hpos' = Len(Pushed(land))
    /\ page' = Content(land)
    /\ stale' = TRUE

\* driver.back(): one entry back in the session history, if there is one.
DriverBack ==
    /\ hpos' = IF hpos > 1 THEN hpos - 1 ELSE hpos
    /\ page' = Content(history[IF hpos > 1 THEN hpos - 1 ELSE hpos])
    /\ stale' = TRUE
    /\ UNCHANGED history

\* driver.forward()
DriverForward ==
    /\ hpos' = IF hpos < Len(history) THEN hpos + 1 ELSE hpos
    /\ page' = Content(history[IF hpos < Len(history) THEN hpos + 1 ELSE hpos])
    /\ stale' = TRUE
    /\ UNCHANGED history

\* driver.refresh()
DriverRefresh ==
    /\ page' = Content(CurrentURL)
    /\ stale' = TRUE
    /\ UNCHANGED <<history, hpos>>

\* BrowserContext._check_and_handle_navigation, on the url the driver is on
\* after the operation: the exception it raises.
CheckAndHandleNavigation(url) ==
    IF IsUrlAllowed(allowed_domains, url) THEN "none" ELSE "URLNotAllowedError"

(***************************************************************************)
(* BrowserContext._wait_for_page_load.                                     *)
(***************************************************************************)
\* Polls of document.readyState that fit in maximum_wait_page_load_time.
MaxPolls == 2

\* What one poll of document.readyState gives: not yet complete, complete,
\* or an exception of the driver other than those WebDriverWait ignores.
PollResults == {"loading", "complete", "threw"}

\* The polls of one wait, as many as fit in the timeout.
PollRuns == [1..MaxPolls -> PollResults]

RECURSIVE WaitForPageLoad(_)
\* BrowserContext._wait_for_page_load on the polls to come: "settled" when
\* the document is complete, "timed_out" when TimeoutException is caught and
\* the warning logged, "raised" when the exception of a poll leaves the wait.
WaitForPageLoad(polls) ==
    IF polls = <<>> THEN "timed_out"
    ELSE IF Head(polls) = "complete" THEN "settled"
    ELSE IF Head(polls) = "threw" THEN "raised"
    ELSE WaitForPageLoad(Tail(polls))

\* The outcomes a wait can have.
WaitOutcomes == {WaitForPageLoad(polls) : polls \in PollRuns}

\* A wait that went through the grace period whatever the polling gave.
WaitPhasesAll(polls) ==
    <<"minimum_wait", "ready_state", "network_idle">>

\* The phases a wait goes through, in order: the sleep of the minimum wait,
\* the polling of document.readyState and, inside the try block after the
\* polling has returned, the sleep of the network-idle time.
WaitPhases(polls) ==
    <<"minimum_wait", "ready_state">>
    \o (IF WaitForPageLoad(polls) = "settled" THEN <<"network_idle">> ELSE <<>>)

(***************************************************************************)
(* BrowserContext: the state manager.                                      *)
(***************************************************************************)
\* The places where BrowserContext._update_state can fail: the extraction of
\* the tree, the enumeration of the tabs, the second extraction made by
\* get_selector_map.
UpdateFailures == {"extract", "tabs", "selector_map"}

\* The state _update_state returns from its except branch.
MinimalState(sid) == BrowserState(sid, EmptyRoot, <<>>, CurrentURL, 0)

\* _update_state with the cache overwritten by the minimal state on failure.
UpdateStateCachesMinimal(fail) ==
    IF fail = "none" THEN
        LET dom_tree == BuildDOMTree(page, heap + 1)
            selector_map == BuildSelectorMap(BuildDOMTree(page, heap + 2))
            state == BrowserState(heap + 3, dom_tree, selector_map, CurrentURL,
                                  window_handles)
        IN  [ret |-> state, cached |-> state, heap |-> heap + 3, extractions |-> 2]
    ELSE [ret |-> BrowserState(heap + 1, EmptyRoot, <<>>, CurrentURL, 0),
          cached |-> BrowserState(heap + 1, EmptyRoot, <<>>, CurrentURL, 0),
          heap |-> heap + 1, extractions |-> 1]

\* BrowserContext._update_state failing at fail ("none": not at all): the
\* state it returns, the cache it leaves, the objects it allocates and the
\* extraction script runs it makes.
UpdateStateResult(fail) ==
    IF fail = "extract" THEN
        [ret |-> MinimalState(heap + 1), cached |-> cached_state,
         heap |-> heap + 1, extractions |-> 1]
    ELSE IF fail = "tabs" THEN
        [ret |-> MinimalState(heap + 1), cached |-> cached_state,
         heap |-> heap + 1, extractions |-> 1]
    ELSE IF fail = "selector_map" THEN
        [ret |-> MinimalState(heap + 1), cached |-> cached_state,
         heap |-> heap + 1, extractions |-> 2]
    ELSE
        LET dom_tree == BuildDOMTree(page, heap + 1)
            selector_map == BuildSelectorMap(BuildDOMTree(page, heap + 2))
            state == BrowserState(heap + 3, dom_tree, selector_map, CurrentURL,
                                  window_handles)
        IN  [ret |-> state, cached |-> state, heap |-> heap + 3, extractions |-> 2]

\* A run of _update_state on behalf of the call op.
DoUpdateState(op, streak) ==
    /\ \E fail \in UpdateFailures \cup {"none"} :
          LET r == UpdateStateResult(fail)
          IN  /\ r.heap <= MaxObj
              /\ cached_state' = r.cached
              /\ stale' = IF r.cached = cached_state THEN stale ELSE FALSE
              /\ heap' = r.heap
              /\ last' = [Outcome(op) EXCEPT
                              !.ret = r.ret,
                              !.caught = fail,
                              !.extractions = r.extractions,
                              !.extract_threw = fail \in {"extract", "selector_map"},
                              !.streak = streak]
    /\ UNCHANGED <<allowed_domains, agentVars, history, hpos, page, window_handles, current_handle>>

\* BrowserContext._update_state
UpdateState ==
    /\ mpc = "idle"
    /\ DoUpdateState("_update_state", 0)
    /\ UNCHANGED <<batchVars, elemVars, browserVars>>

\* get_state calls in a row, counted up to 2.
Streak == IF last.op = "get_state" /\ last.streak >= 1 THEN 2 ELSE 1

\* get_state recomputing the state on every call.
GetStateRecomputes ==
    /\ mpc = "idle"
    /\ DoUpdateState("get_state", Streak)
    /\ UNCHANGED <<batchVars, elemVars, browserVars>>

\* BrowserContext.get_state
GetState ==
    /\ mpc = "idle"
    /\ IF cached_state # NoState
       THEN /\ last' = [Outcome("get_state") EXCEPT !.ret = cached_state,
                                                     !.streak = Streak]
            /\ UNCHANGED <<allowed_domains, agentVars, history, hpos, page, window_handles, current_handle,
                           heap, cached_state, stale>>
       ELSE DoUpdateState("get_state", Streak)
    /\ UNCHANGED <<batchVars, elemVars, browserVars>>

\* navigate_to without the check of the requested url.
NavigateToUnchecked(url) ==
    /\ mpc = "idle"
    /\ \E land \in Lands(url) :
          /\ DriverGet(land)
          /\ last' = [Outcome("navigate_to") EXCEPT
                          !.arg_url = url, !.driver_nav = TRUE,
                          !.raised = CheckAndHandleNavigation(land)]
    /\ UNCHANGED <<allowed_domains, agentVars, window_handles, current_handle, heap, cached_state>>
    /\ UNCHANGED <<batchVars, elemVars, browserVars>>

\* BrowserContext.navigate_to
NavigateTo(url) ==
    /\ mpc = "idle"
    /\ IF ~IsUrlAllowed(allowed_domains, url)
       THEN /\ last' = [Outcome("navigate_to") EXCEPT
                            !.arg_url = url, !.raised = "URLNotAllowedError"]
            /\ UNCHANGED <<history, hpos, page, stale>>
       ELSE \E land \in Lands(url) :
               /\ DriverGet(land)
               /\ last' = [Outcome("navigate_to") EXCEPT
                               !.arg_url = url, !.driver_nav = TRUE,
                               !.raised = CheckAndHandleNavigation(land)]
    /\ UNCHANGED <<allowed_domains, agentVars, window_handles, current_handle, heap, cached_state>>
    /\ UNCHANGED <<batchVars, elemVars, browserVars>>

\* What refresh_page, go_back and go_forward do after the driver's operation
\* op: the page load is waited for, which ends as wait says ("settled",
\* "timed_out" with a warning logged, or "raised" when the exception of the
\* readyState script leaves the wait), and then the URL the driver is on is
\* checked.  Nothing else is asked of the driver.
AfterOperation(name, op, wait, url) ==
    IF wait = "raised"
    THEN [Outcome(name) EXCEPT !.driver_nav = TRUE,
                               !.steps = <<op, "wait">>,
                               !.raised = "WebDriverException"]
    ELSE [Outcome(name) EXCEPT !.driver_nav = TRUE,
                               !.steps = <<op, "wait", "check">>,
                               !.logged = IF wait = "timed_out"
                                          THEN {Msg("Page load timed out after {timeout} seconds",
                                                    "", -1)}
                                          ELSE {},
                               !.raised = CheckAndHandleNavigation(url)]

\* BrowserContext.refresh_page
RefreshPage(wait) ==
    /\ mpc = "idle"
    /\ DriverRefresh
    /\ last' = AfterOperation("refresh_page", "refresh", wait, CurrentURL)
    /\ UNCHANGED <<allowed_domains, agentVars, window_handles, current_handle, heap, cached_state>>
    /\ UNCHANGED <<batchVars, elemVars, browserVars>>

\* go_back navigating back to where it came from when the URL is disallowed.
GoBackReturns(wait) ==
    /\ mpc = "idle"
    /\ IF CheckAndHandleNavigation(history[IF hpos > 1 THEN hpos - 1 ELSE hpos]) = "none"
          \/ wait = "raised"
       THEN /\ DriverBack
            /\ last' = AfterOperation("go_back", "back", wait, history'[hpos'])
       ELSE /\ stale' = TRUE
            /\ last' = [AfterOperation("go_back", "back", wait,
                                       history[IF hpos > 1 THEN hpos - 1 ELSE hpos])
                            EXCEPT !.steps = <<"back", "wait", "check", "forward">>]
            /\ UNCHANGED <<history, hpos, page>>
    /\ UNCHANGED <<allowed_domains, agentVars, window_handles, current_handle, heap, cached_state>>
    /\ UNCHANGED <<batchVars, elemVars, browserVars>>

\* BrowserContext.go_back
GoBack(wait) ==
    /\ mpc = "idle"
    /\ DriverBack
    /\ last' = AfterOperation("go_back", "back", wait, history'[hpos'])
    /\ UNCHANGED <<allowed_domains, agentVars, window_handles, current_handle, heap, cached_state>>
    /\ UNCHANGED <<batchVars, elemVars, browserVars>>

\* BrowserContext.go_forward
GoForward(wait) ==
    /\ mpc = "idle"
    /\ DriverForward
    /\ last' = AfterOperation("go_forward", "forward", wait, history'[hpos'])
    /\ UNCHANGED <<allowed_domains, agentVars, window_handles, current_handle, heap, cached_state>>
    /\ UNCHANGED <<batchVars, elemVars, browserVars>>

(***************************************************************************)
(* Controller: the registered actions.  Each definition is the action's    *)
(* function run through Controller.act, which re-raises what it raises.    *)
(* The pages of this model hold no file inputs.                            *)
(***************************************************************************)
\* The texts typed: an ordinary one and a credential.
Texts == {"hello", "s3cret"}

\* The handles a caller uses.
Indices == 0..(Cardinality(Elems) - 1)

\* The check every handle-addressed action starts with: the handle looked up
\* in a fresh extraction (browser.get_selector_map), then resolved in the cached
\* map (browser.get_dom_element_by_index).  The outcome is "threw" when the
\* extraction script throws, "missing" when the fresh map lacks the handle,
\* "none_node" when the cached map lacks it, "ok" otherwise.
Lookups(index) ==
    {"threw"} \cup
    {IF ~HasIndex(BuildSelectorMap(BuildDOMTree(page, 0)), index) THEN "missing"
     ELSE IF ~HasIndex(cached_state.selector_map, index) THEN "none_node"
     ELSE "ok"}

\* BrowserContext.get_dom_element_by_index
GetDomElementByIndex(index) == cached_state.selector_map[index + 1]

\* The record of a handle-addressed action after its lookup: the element the
\* freshly extracted map of the existence check has for the handle, and the
\* element that get_dom_element_by_index took from the cached map.
Handle(op, index, lookup) ==
    [Outcome(op) EXCEPT
        !.index = index,
        !.checked = IF lookup # "threw"
                       /\ HasIndex(BuildSelectorMap(BuildDOMTree(page, 0)), index)
                    THEN BuildSelectorMap(BuildDOMTree(page, 0))[index + 1].el
                    ELSE "",
        !.node = IF lookup = "ok" THEN GetDomElementByIndex(index).el ELSE ""]

\* BrowserContext.get_locate_element: whether the node is found on the page.
Located(node) == node.el \in page

\* What the page does when an element is clicked: nothing, show one more
\* element, or navigate.
ClickEffect ==
    \/ UNCHANGED <<history, hpos, page>> /\ stale' = TRUE
    \/ \E e \in Elems \ page :
          /\ page' = page \cup {e}
          /\ stale' = TRUE
          /\ UNCHANGED <<history, hpos>>
    \/ \E land \in RequestURLs : DriverGet(land)

\* What the page does when text is typed into an element: nothing, or show one
\* more element.
InputEffect ==
    /\ \E shown \in {page} \cup {page \cup {e} : e \in Elems} : page' = shown
    /\ stale' = TRUE
    /\ UNCHANGED <<history, hpos>>

\* The search_google action.
SearchGoogle ==
    /\ DriverGet(GoogleURL)
    /\ last' = [Outcome("search_google") EXCEPT
                    !.driver_nav = TRUE,
                    !.logged = {Msg("Searched for {query} in Google", "", -1)},
                    !.result = ActionResult(
                        Msg("Searched for {query} in Google", "", -1), "", FALSE)]
    /\ UNCHANGED <<allowed_domains, agentVars, window_handles, current_handle, heap, cached_state>>

\* Controller._save_selenium_code: nothing is done when no snippet file is
\* configured; otherwise the directory is created and the file is opened and
\* written, and what either of them raises leaves the function.
SaveSeleniumCode(save_selenium_code, makedirs_ok, write_ok) ==
    IF ~save_selenium_code THEN "unset"
    ELSE IF ~makedirs_ok THEN "failed"
    ELSE IF ~write_ok THEN "failed"
    ELSE "written"

\* What a call of _save_selenium_code can come to.
SaveRuns ==
    {SaveSeleniumCode(c, m, w) : c \in BOOLEAN, m \in BOOLEAN, w \in BOOLEAN}

\* The go_to_url action; saved is what its call of _save_selenium_code comes
\* to.  The other actions of this section are studied with a snippet file
\* that is written without fault.
GoToUrl(url, saved) ==
    /\ \E land \in Lands(url) : DriverGet(land)
    /\ last' = [Outcome("go_to_url") EXCEPT
                    !.arg_url = url,
                    !.driver_nav = TRUE,
                    !.logged = {Msg("Navigated to {url}", "", -1)},
                    !.snippet = {Snippet("go_to", "", "")},
                    !.saved = saved,
                    !.raised = IF saved = "failed" THEN "OSError" ELSE "none",
                    !.result = IF saved = "failed" THEN NoResult
                               ELSE ActionResult(Msg("Navigated to {url}", "", -1),
                                                 "", FALSE)]
    /\ UNCHANGED <<allowed_domains, agentVars, window_handles, current_handle, heap, cached_state>>

\* The go_back action.
GoBackAction ==
    /\ DriverBack
    /\ last' = [Outcome("go_back_action") EXCEPT
                    !.driver_nav = TRUE,
                    !.logged = {Msg("Navigated back", "", -1)},
                    !.snippet = {Snippet("back", "", "")},
                    !.result = ActionResult(Msg("Navigated back", "", -1), "", FALSE)]
    /\ UNCHANGED <<allowed_domains, agentVars, window_handles, current_handle, heap, cached_state>>

\* The click_element action.  selenium_snippets has no function click, so the
\* snippet line raises AttributeError after the click, inside the try block.
ClickElement(index) ==
    /\ \E lookup \in Lookups(index) :
          IF lookup # "ok"
          THEN /\ last' = [Handle("click_element", index, lookup) EXCEPT
                               !.extractions = 1,
                               !.extract_threw = (lookup = "threw"),
                               !.why = IF lookup = "threw" THEN ""
                                       ELSE IF lookup = "none_node" THEN "none_node"
                                       ELSE "index_missing",
                               !.raised = IF lookup = "threw" THEN "WebDriverException"
                                          ELSE "Exception"]
               /\ UNCHANGED <<history, hpos, page, stale>>
          ELSE IF ~Located(GetDomElementByIndex(index))
          THEN /\ last' = [Handle("click_element", index, lookup) EXCEPT
                               !.extractions = 1,
                               !.why = "not_located",
                               !.logged = {Msg("Element not clickable with index", "", index)},
                               !.result = ActionResult(NoMsg, "Could not locate element", FALSE)]
               /\ UNCHANGED <<history, hpos, page, stale>>
          ELSE \E clicked \in BOOLEAN :
                  IF ~clicked
                  THEN /\ last' = [Handle("click_element", index, lookup) EXCEPT
                                       !.extractions = 1,
                                       !.why = "click_failed",
                                       !.logged = {Msg("Element not clickable with index", "", index)},
                                       !.result = ActionResult(NoMsg,
                                           "Failed to click element with all methods", FALSE)]
                       /\ UNCHANGED <<history, hpos, page, stale>>
                  ELSE /\ ClickEffect
                       /\ last' = [Handle("click_element", index, lookup) EXCEPT
                                       !.extractions = 1,
                                       !.why = "clicked",
                                       !.logged = {Msg("Element not clickable with index", "", index)},
                                       !.result = ActionResult(NoMsg,
                                           "AttributeError: no attribute 'click'", FALSE)]
    /\ UNCHANGED <<allowed_domains, agentVars, window_handles, current_handle, heap, cached_state>>

\* The message input_text logs and returns.
InputMsg(index, text, has_sensitive_data) ==
    IF ~has_sensitive_data THEN Msg("Input {text} into index {index}", text, index)
    ELSE Msg("Input sensitive data into index {index}", "", index)

\* selenium_snippets.input_txt
InputTxt(element_xpath, text) == Snippet("input_txt", element_xpath, text)

\* The input_text action.
InputText(index, text, has_sensitive_data) ==
    /\ \E lookup \in Lookups(index) :
          IF lookup # "ok"
          THEN /\ last' = [Handle("input_text", index, lookup) EXCEPT
                               !.text = text, !.sensitive = has_sensitive_data,
                               !.extractions = 1,
                               !.extract_threw = (lookup = "threw"),
                               !.why = IF lookup = "threw" THEN ""
                                       ELSE IF lookup = "none_node" THEN "none_node"
                                       ELSE "index_missing",
                               !.raised = IF lookup = "threw" THEN "WebDriverException"
                                          ELSE "Exception"]
               /\ UNCHANGED <<history, hpos, page, stale>>
          ELSE IF ~Located(GetDomElementByIndex(index))
          THEN /\ last' = [Handle("input_text", index, lookup) EXCEPT
                               !.text = text, !.sensitive = has_sensitive_data,
                               !.extractions = 1,
                               !.why = "not_located",
                               !.raised = "Exception"]
               /\ UNCHANGED <<history, hpos, page, stale>>
          ELSE \E typed \in BOOLEAN :
                  IF ~typed
                  THEN /\ last' = [Handle("input_text", index, lookup) EXCEPT
                                       !.text = text, !.sensitive = has_sensitive_data,
                                       !.extractions = 1,
                                       !.why = "send_keys_failed",
                                       !.logged = {Msg("Error inputting text", "", -1)},
                                       !.raised = "Exception"]
                       /\ UNCHANGED <<history, hpos, page, stale>>
                  ELSE /\ InputEffect
                       /\ last' = [Handle("input_text", index, lookup) EXCEPT
                                       !.text = text, !.sensitive = has_sensitive_data,
                                       !.extractions = 1,
                                       !.why = "typed",
                                       !.logged = {InputMsg(index, text, has_sensitive_data)},
                                       !.snippet = {InputTxt(GetDomElementByIndex(index).el, text)},
                                       !.result = ActionResult(
                                           InputMsg(index, text, has_sensitive_data), "", FALSE)]
    /\ UNCHANGED <<allowed_domains, agentVars, window_handles, current_handle, heap, cached_state>>

\* The open_tab action: BrowserContext.create_new_tab, whose navigate_to may
\* raise, then the message and the snippet.
OpenTab(url) ==
    /\ window_handles < MaxTabs
    /\ window_handles' = window_handles + 1
    /\ current_handle' = window_handles
    /\ stale' = TRUE
    /\ IF ~IsUrlAllowed(allowed_domains, url)
       THEN /\ history' = <<BlankURL>>
            /\ hpos' = 1
            /\ page' = {}
            /\ last' = [Outcome("open_tab") EXCEPT
                            !.arg_url = url, !.raised = "URLNotAllowedError"]
       ELSE \E land \in Lands(url) :
               /\ history' = <<BlankURL, land>>
               /\ hpos' = 2
               /\ page' = Content(land)
               /\ last' = IF CheckAndHandleNavigation(land) # "none"
                          THEN [Outcome("open_tab") EXCEPT
                                    !.arg_url = url, !.driver_nav = TRUE,
                                    !.raised = CheckAndHandleNavigation(land)]
                          ELSE [Outcome("open_tab") EXCEPT
                                    !.arg_url = url, !.driver_nav = TRUE,
                                    !.logged = {Msg("Opened new tab with {url}", "", -1)},
                                    !.snippet = {Snippet("open_tab", "", "")},
                                    !.result = ActionResult(
                                        Msg("Opened new tab with {url}", "", -1), "", FALSE)]
    /\ UNCHANGED <<allowed_domains, agentVars, heap, cached_state>>

\* The done action.
Done ==
    /\ last' = [Outcome("done") EXCEPT
                    !.result = ActionResult(Msg("{text}", "", -1), "", TRUE)]
    /\ UNCHANGED <<allowed_domains, agentVars, history, hpos, page, window_handles, current_handle, heap,
                   cached_state, stale>>

\* An action submitted to the controller (an ActionModel): the action's name
\* and its parameters; index is -1 for an action without one (get_index() is
\* None).
Action(name, index, text, sensitive, url) ==
    [name |-> name, index |-> index, text |-> text, sensitive |-> sensitive,
     url |-> url]

Actions ==
    {Action("search_google", -1, "", FALSE, NoURL), Action("go_back", -1, "", FALSE, NoURL)}
    \cup {Action("go_to_url", -1, "", FALSE, url) : url \in RequestURLs}
    \cup {Action("open_tab", -1, "", FALSE, url) : url \in RequestURLs}
    \cup {Action("click_element", i, "", FALSE, NoURL) : i \in Indices}
    \cup {Action("input_text", i, "hello", FALSE, NoURL) : i \in Indices}
    \cup {Action("input_text", i, "s3cret", TRUE, NoURL) : i \in Indices}

\* Controller.act: the registered function of the action's name is run on its
\* parameters; what it returns is returned and what it raises is raised.
Act(action) ==
    CASE action.name = "search_google" -> SearchGoogle
      [] action.name = "go_to_url" ->
             \E saved \in SaveRuns : GoToUrl(action.url, saved)
      [] action.name = "go_back" -> GoBackAction
      [] action.name = "click_element" -> ClickElement(action.index)
      [] action.name = "input_text" ->
             InputText(action.index, action.text, action.sensitive)
      [] action.name = "open_tab" -> OpenTab(action.url)
      [] action.name = "done" -> Done

\* One action submitted to Controller.act outside a batch.
ActCall ==
    /\ mpc = "idle"
    /\ \E action \in Actions : Act(action)
    /\ UNCHANGED <<batchVars, elemVars, browserVars>>

Next ==
    \/ GetState
    \/ UpdateState
    \/ \E url \in NavigateURLs : NavigateTo(url)
    \/ \E wait \in WaitOutcomes : RefreshPage(wait)
    \/ \E wait \in WaitOutcomes : GoBack(wait)
    \/ \E wait \in WaitOutcomes : GoForward(wait)

Spec == Init /\ [][Next]_vars

\* The controller's actions, submitted one at a time to a session whose state
\* the caller recomputes between them.
NextAct ==
    \/ UpdateState
    \/ ActCall

SpecAct == Init /\ [][NextAct]_vars

(***************************************************************************)
(* Controller.multi_act.  One step of the model is one iteration of its    *)
(* loop.  The cancellation callback, check_break_if_paused, either returns *)
(* or raises each time it is consulted; events is the order in which the   *)
(* callback was consulted and the actions were executed.                   *)
(***************************************************************************)
\* The actions the batches are made of.
BatchActions ==
    {Action("input_text", 0, "hello", FALSE, NoURL),
     Action("click_element", 0, "", FALSE, NoURL),
     Action("go_back", -1, "", FALSE, NoURL),
     Action("done", -1, "", FALSE, NoURL)}

\* The batches submitted: up to MaxBatch actions.
Batches == UNION {[1..n -> BatchActions] : n \in 1..MaxBatch}

\* multi_act up to its loop: the fingerprints of the cached selector map are
\* captured and the callback is consulted (line 581); paused: it raises.
MultiActBegin(actions, check, paused) ==
    /\ mpc = "idle"
    /\ batch' = actions
    /\ check_for_new_elements' = check
    /\ cached_path_hashes' = PathHashes(cached_state.selector_map)
    /\ bi' = 0
    /\ results' = <<>>
    /\ executed' = <<>>
    /\ events' = IF paused THEN <<"raise">> ELSE <<"check">>
    /\ mpc' = IF paused THEN "cancelled" ELSE "loop"
    /\ UNCHANGED <<ctxVars, elemVars, browserVars>>

\* The entry multi_act appends when it stops for new elements.
StopEntry(i) ==
    ActionResult(Msg("Something new appeared after action {i} / {n}", "", i), "", FALSE)

\* The guard of iteration i: the action has an index, is not the first, and the
\* state get_state returns, which is the cached one, has a fingerprint outside
\* the captured set.
NewElementsSeen(action) ==
    /\ action.index # -1
    /\ bi # 0
    /\ check_for_new_elements
    /\ ~(PathHashes(cached_state.selector_map) \subseteq cached_path_hashes)

\* What multi_act remembers of an executed action.
Executed(action) ==
    [i |-> bi, index |-> action.index, page |-> page, why |-> last'.why,
     action |-> action, raised |-> last'.raised, result |-> last'.result]

\* The loop of multi_act going on after a result with an error or is_done.
MultiActStepNoBreak ==
    /\ mpc = "loop"
    /\ cached_state # NoState
    /\ LET action == batch[bi + 1]
       IN  /\ Act(action)
           /\ executed' = Append(executed, Executed(action))
           /\ events' = events \o <<"check", "check", "act">>
           /\ IF last'.raised # "none"
              THEN /\ mpc' = "raised"
                   /\ UNCHANGED <<bi, results>>
              ELSE /\ results' = Append(results, last'.result)
                   /\ IF bi = Len(batch) - 1
                      THEN mpc' = "returned" /\ bi' = bi
                      ELSE mpc' = "loop" /\ bi' = bi + 1
    /\ UNCHANGED <<batch, check_for_new_elements, cached_path_hashes, elemVars, browserVars>>

\* The loop of multi_act with no callback consulted in it.
MultiActStepUnchecked ==
    /\ mpc = "loop"
    /\ cached_state # NoState
    /\ LET action == batch[bi + 1]
       IN  /\ Act(action)
           /\ executed' = Append(executed, Executed(action))
           /\ events' = Append(events, "act")
           /\ IF last'.raised # "none"
              THEN /\ mpc' = "raised"
                   /\ UNCHANGED <<bi, results>>
              ELSE /\ results' = Append(results, last'.result)
                   /\ IF \/ last'.result.is_done
                         \/ last'.result.error # ""
                         \/ bi = Len(batch) - 1
                      THEN mpc' = "returned" /\ bi' = bi
                      ELSE mpc' = "loop" /\ bi' = bi + 1
    /\ UNCHANGED <<batch, check_for_new_elements, cached_path_hashes, elemVars, browserVars>>

\* One iteration of the loop of multi_act: the callback is consulted at the
\* top of the iteration (line 586) and again before the action (598).
MultiActStep ==
    /\ mpc = "loop"
    /\ cached_state # NoState
    /\ LET action == batch[bi + 1]
       IN  \E paused1 \in BOOLEAN :
              IF paused1
              THEN /\ events' = Append(events, "raise")
                   /\ mpc' = "cancelled"
                   /\ UNCHANGED <<ctxVars, bi, results, executed>>
              ELSE IF NewElementsSeen(action)
              THEN /\ events' = Append(events, "check")
                   /\ results' = Append(results, StopEntry(bi))
                   /\ mpc' = "returned"
                   /\ UNCHANGED <<ctxVars, bi, executed>>
              ELSE \E paused2 \in BOOLEAN :
                      IF paused2
                      THEN /\ events' = events \o <<"check", "raise">>
                           /\ mpc' = "cancelled"
                           /\ UNCHANGED <<ctxVars, bi, results, executed>>
                      ELSE /\ Act(action)
                           /\ executed' = Append(executed, Executed(action))
                           /\ events' = events \o <<"check", "check", "act">>
                           /\ IF last'.raised # "none"
                              THEN /\ mpc' = "raised"
                                   /\ UNCHANGED <<bi, results>>
                              ELSE /\ results' = Append(results, last'.result)
                                   /\ IF \/ last'.result.is_done
                                         \/ last'.result.error # ""
                                         \/ bi = Len(batch) - 1
                                      THEN mpc' = "returned" /\ bi' = bi
                                      ELSE mpc' = "loop" /\ bi' = bi + 1
    /\ UNCHANGED <<batch, check_for_new_elements, cached_path_hashes, elemVars, browserVars>>

\* multi_act has returned its results, or raised, to its caller, and its
\* locals are gone.
MultiActEnd ==
    /\ mpc \in {"returned", "raised", "cancelled"}
    /\ mpc' = "idle"
    /\ batch' = <<>>
    /\ check_for_new_elements' = FALSE
    /\ cached_path_hashes' = {}
    /\ bi' = 0
    /\ results' = <<>>
    /\ executed' = <<>>
    /\ events' = <<>>
    /\ UNCHANGED <<ctxVars, elemVars, browserVars>>

\* The planner has just been handed a recomputed state.
StateInHand == last.op = "_update_state" /\ last.caught = "none"

\* Batches submitted to a session whose caller navigates, recomputes the state
\* and plans a batch on the state it has just been handed.
NextBatch ==
    \/ \E url \in NavigateURLs : NavigateTo(url)
    \/ UpdateState
    \/ \E actions \in Batches, check \in BOOLEAN, paused \in BOOLEAN :
          StateInHand /\ MultiActBegin(actions, check, paused)
    \/ MultiActStep
    \/ MultiActEnd

SpecBatch == Init /\ [][NextBatch]_vars

\* Batches submitted to a session whose caller opens one page, recomputes the
\* state and plans a batch on the state it has just been handed.
NextMulti ==
    \/ NavigateTo(AllowedURL)
    \/ UpdateState
    \/ \E actions \in Batches, check \in BOOLEAN, paused \in BOOLEAN :
          StateInHand /\ MultiActBegin(actions, check, paused)
    \/ MultiActStep
    \/ MultiActEnd

SpecMulti == Init /\ [][NextMulti]_vars

(***************************************************************************)
(* BrowserContext.get_locate_element.  A string is the sequence of its     *)
(* characters.  A document is the sequence of its elements in document     *)
(* order; an element has its path, tag, id, class and the texts of its     *)
(* text-node children, in order.                                           *)
(***************************************************************************)
\* Elements of one document.
MaxDoc == 2

TextOk == <<"o", "k">>
TextApos == <<"o", "'", "k">>
TextBlank == <<" ">>

\* An element of the page, and a DOMElementNode of a tree: the fields the
\* locator reads (children holds the texts of the DOMTextNode children).
Element(xpath, tag_name, id, class, children) ==
    [xpath |-> xpath, tag_name |-> tag_name, id |-> id, class |-> class,
     children |-> children]

\* The elements a document is made of.
PageElements ==
    {Element("/b1", "button", "go", "", <<TextOk>>),
     Element("/b2", "button", "go", "", <<>>),
     Element("/s1", "span", "", "", <<TextOk>>),
     Element("/s2", "span", "", "", <<TextApos>>),
     Element("/s3", "span", "", "", <<<<"o">>, <<"k">>>>),
     Element("/d1", "div", "", "box", <<>>)}

\* The documents: up to MaxDoc distinct elements.
Documents ==
    {doc \in UNION {[1..n -> PageElements] : n \in 0..MaxDoc} :
        \A i, j \in 1..Len(doc) : i # j => doc[i] # doc[j]}

\* The nodes the locator is asked for: an element as it was extracted, and
\* the same element after the page has rebuilt it under another path, tag
\* and attributes, its text kept.
LocateNodes ==
    PageElements
    \cup {Element("/gone", "a", "", "", e.children) : e \in PageElements}
    \cup {Element("", "a", "old", "", e.children) : e \in PageElements}

RECURSIVE Flatten(_)
\* The concatenation of a sequence of strings.
Flatten(strings) ==
    IF strings = <<>> THEN <<>> ELSE Head(strings) \o Flatten(Tail(strings))

\* str.strip() leaves something.
NonBlank(s) == \E k \in 1..Len(s) : s[k] # " "

\* XPath contains(s, t)
Contains(s, t) ==
    \E i \in 0..(Len(s) - Len(t)) : SubSeq(s, i + 1, i + Len(t)) = t

\* The first of a set of positions of a document, 0 if there is none.
FirstMatch(positions) ==
    IF positions = {} THEN 0
    ELSE CHOOSE k \in positions : \A j \in positions : k <= j

\* driver.find_element(By.XPATH, xpath) for the path of a node.
FindByXPath(doc, xpath) ==
    FirstMatch({k \in 1..Len(doc) : doc[k].xpath = xpath})

\* A CSS selector: tag, #id and .class parts ("" for an absent part), and
\* whether the text is a selector at all.
Css(tag, id, class, wellformed) ==
    [tag |-> tag, id |-> id, class |-> class, wellformed |-> wellformed]

\* BrowserContext._enhanced_css_selector_for_element: with an id the
\* selector is tag#'id', quotes included, which is not a selector; without
\* one it is the tag followed by the class.
EnhancedCssSelectorForElement(node) ==
    IF node.id # "" THEN Css(node.tag_name, node.id, "", FALSE)
    ELSE Css(node.tag_name, "", node.class, TRUE)

\* The simpler selector of strategy 3: tag#id, else tag.class, else tag.
SimpleSelector(node) ==
    IF node.id # "" THEN Css(node.tag_name, node.id, "", TRUE)
    ELSE Css(node.tag_name, "", node.class, TRUE)

\* driver.find_element(By.CSS_SELECTOR, selector): 0 also when the browser
\* rejects the selector (InvalidSelectorException, which the locator catches).
FindByCss(doc, selector) ==
    IF selector.wellformed
    THEN FirstMatch({k \in 1..Len(doc) :
                        /\ doc[k].tag_name = selector.tag
                        /\ selector.id # "" => doc[k].id = selector.id
                        /\ selector.class # "" => doc[k].class = selector.class})
    ELSE 0

\* The expression //*[contains(text(), '{element_text}')] is an XPath only if
\* the text holds no apostrophe: the literal ends at the first one.
TextXPathWellFormed(element_text) ==
    \A k \in 1..Len(element_text) : element_text[k] # "'"

\* driver.find_element(By.XPATH, "//*[contains(text(), '...')]"): text() in
\* contains() stands for the first text-node child of the element.
FindByText(doc, element_text) ==
    IF TextXPathWellFormed(element_text)
    THEN FirstMatch({k \in 1..Len(doc) :
                        /\ doc[k].children # <<>>
                        /\ Contains(doc[k].children[1], element_text)})
    ELSE 0

\* The strategies of get_locate_element in the order of the code: the path,
\* the synthesized selector, the simpler selector, the text.
Strategies == 1..4

StrategyName(k) ==
    CASE k = 1 -> "xpath" [] k = 2 -> "css" [] k = 3 -> "simple" [] k = 4 -> "text"

\* The condition under which the code calls find_element for strategy k: a
\* path, a selector (an element node always has one) or a text to look for.
Applicable(node, k) ==
    CASE k = 1 -> node.xpath # ""
      [] k = 2 -> TRUE
      [] k = 3 -> TRUE
      [] k = 4 -> NonBlank(Flatten(node.children))

\* What find_element of strategy k finds when the driver answers: a position
\* of the document, 0 for NoSuchElementException (or a rejected expression).
Find(node, doc, k) ==
    CASE k = 1 -> FindByXPath(doc, node.xpath)
      [] k = 2 -> FindByCss(doc, EnhancedCssSelectorForElement(node))
      [] k = 3 -> FindByCss(doc, SimpleSelector(node))
      [] k = 4 -> FindByText(doc, Flatten(node.children))

RECURSIVE LocateLastWins(_, _, _, _, _)
\* The strategies from k on, all of them tried and the last success kept.
LocateLastWins(node, doc, faults, k, sofar) ==
    IF k > 4 THEN sofar
    ELSE IF ~Applicable(node, k)
    THEN LocateLastWins(node, doc, faults, k + 1, sofar)
    ELSE IF k \notin faults /\ Find(node, doc, k) # 0
    THEN LocateLastWins(node, doc, faults, k + 1,
             [ret |-> Find(node, doc, k), via |-> StrategyName(k),
              attempted |-> Append(sofar.attempted, k), raised |-> "none"])
    ELSE LocateLastWins(node, doc, faults, k + 1,
             [sofar EXCEPT !.attempted = Append(sofar.attempted, k)])

\* get_locate_element going on after a strategy has found the element.
LocateResultLastWins(node, doc, faults) ==
    LocateLastWins(node, doc, faults, 1,
        [ret |-> 0, via |-> "none", attempted |-> <<>>, raised |-> "none"])

RECURSIVE LocateFrom(_, _, _, _, _)
\* The strategies from k on, after those of attempted: a strategy whose
\* find_element raises, be it NoSuchElementException or another
\* WebDriverException (k in faults), is followed by the next one; the
\* first element found is returned.
LocateFrom(node, doc, faults, k, attempted) ==
    IF k > 4 THEN [ret |-> 0, via |-> "none", attempted |-> attempted, raised |-> "none"]
    ELSE IF ~Applicable(node, k)
    THEN LocateFrom(node, doc, faults, k + 1, attempted)
    ELSE IF k \notin faults /\ Find(node, doc, k) # 0
    THEN [ret |-> Find(node, doc, k), via |-> StrategyName(k),
          attempted |-> Append(attempted, k), raised |-> "none"]
    ELSE LocateFrom(node, doc, faults, k + 1, Append(attempted, k))

\* BrowserContext.get_locate_element on the document doc; faults: the
\* strategies at which the driver raises a WebDriverException other than
\* NoSuchElementException (the connection to the browser is lost).  The
\* position of the element returned (0: None), the strategy that found it,
\* the strategies whose find_element was called, and what is raised.
LocateResult(node, doc, faults) == LocateFrom(node, doc, faults, 1, <<>>)

\* The calls of get_locate_element.
LocateCalls ==
    {[op |-> "get_locate_element", pc |-> "called", node |-> node, doc |-> doc,
      faults |-> faults] :
        node \in LocateNodes, doc \in Documents, faults \in SUBSET Strategies}

\* A call of get_locate_element returns.
GetLocateElement ==
    /\ out.op = "get_locate_element"
    /\ out.pc = "called"
    /\ out' = [op |-> "get_locate_element", pc |-> "returned",
               node |-> out.node, doc |-> out.doc, faults |-> out.faults,
               raised |-> LocateResult(out.node, out.doc, out.faults).raised,
               ret |-> LocateResult(out.node, out.doc, out.faults).ret,
               via |-> LocateResult(out.node, out.doc, out.faults).via,
               attempted |-> LocateResult(out.node, out.doc, out.faults).attempted]
    /\ UNCHANGED <<ctxVars, batchVars, frame_ctx, scroll_y, browserVars>>

\* A session in which get_locate_element has been called.
InitLocate ==
    /\ InitState
    /\ out \in LocateCalls
    /\ driver = 1
    /\ live = {1}
    /\ created = 1
    /\ session = 1
    /\ tasks = <<>>
    /\ chrome = "down"
    /\ chrome_instance_path = FALSE

NextLocate == GetLocateElement

SpecLocate == InitLocate /\ [][NextLocate]_vars

(***************************************************************************)
(* The click path in full: BrowserContext.is_file_uploader,                *)
(* _wait_for_page_load, _click_element_node and the click_element action   *)
(* from the point where the handle has resolved to a node (the lookup is   *)
(* part of ClickElement above).  A click of this study may open windows;   *)
(* the page of a window that was already open is left as it is.            *)
(***************************************************************************)
\* The deepest nesting of a file input below a clicked node.
MaxDepth == 4

\* A DOMElementNode as is_file_uploader reads it.
ElementNode(tag_name, type, children) ==
    [tag_name |-> tag_name, type |-> type, children |-> children]

FileInput == ElementNode("input", "file", <<>>)
Button == ElementNode("button", "", <<>>)

RECURSIVE Nested(_, _)
\* The node inner wrapped in depth div elements.
Nested(inner, depth) ==
    IF depth = 0 THEN inner
    ELSE ElementNode("div", "", <<Nested(inner, depth - 1)>>)

\* The nodes clicked: a button, and a file input bare or wrapped.
ClickNodes == {Button} \cup {Nested(FileInput, d) : d \in 0..MaxDepth}

RECURSIVE IsFileUploader(_, _, _)
\* BrowserContext.is_file_uploader
IsFileUploader(element_node, max_depth, current_depth) ==
    IF current_depth > max_depth THEN FALSE
    ELSE IF element_node.tag_name = "input" /\ element_node.type = "file" THEN TRUE
    ELSE \E k \in 1..Len(element_node.children) :
            IsFileUploader(element_node.children[k], max_depth, current_depth + 1)

\* The click methods of try_click_methods, in the order they are tried:
\* native, script-dispatched, pointer-simulated, pointer at coordinates.
ClickMethods == 1..4

RECURSIVE TryAllFrom(_, _, _)
\* The methods from k on, every one of them dispatched.
TryAllFrom(works, k, sofar) ==
    IF k > 4 THEN sofar
    ELSE TryAllFrom(works, k + 1,
             [success |-> sofar.success \/ k \in works,
              by |-> IF k \in works THEN k ELSE sofar.by,
              tried |-> Append(sofar.tried, k)])

RECURSIVE TryFrom(_, _, _)
\* The methods from k on, after those of tried: a method that raises is
\* followed by the next one, a method that returns ends the attempts.
TryFrom(works, k, tried) ==
    IF k > 4 THEN [success |-> FALSE, by |-> 0, tried |-> tried]
    ELSE IF k \in works THEN [success |-> TRUE, by |-> k, tried |-> Append(tried, k)]
    ELSE TryFrom(works, k + 1, Append(tried, k))

\* try_click_methods going on after a method has returned.
TryClickMethodsAll(works, opened, wait) ==
    LET t == TryAllFrom(works, 1, [success |-> FALSE, by |-> 0, tried |-> <<>>])
    IN  [success |-> t.success, by |-> t.by, tried |-> t.tried,
         switched |-> opened > 0,
         waits |-> IF opened > 0 THEN <<wait>> ELSE <<>>,
         raised |-> IF opened > 0 /\ wait = "raised" THEN "WebDriverException"
                    ELSE "none"]

\* try_click_methods: works, the methods that do not raise; opened, the
\* windows open after the attempts that were not before; wait, the outcome
\* of the wait of its finally block.  Whether it returns True, the method
\* that returned, the methods dispatched in order, whether the driver was
\* switched to a new window, the waits made, and what leaves the function
\* instead of its return value.
TryClickMethods(works, opened, wait) ==
    LET t == TryFrom(works, 1, <<>>)
    IN  [success |-> t.success, by |-> t.by, tried |-> t.tried,
         switched |-> opened > 0,
         waits |-> IF opened > 0 THEN <<wait>> ELSE <<>>,
         raised |-> IF opened > 0 /\ wait = "raised" THEN "WebDriverException"
                    ELSE "none"]

\* The methods try_click_methods dispatches when by is the first that works
\* (0: none does).
Attempted(by) ==
    LET t == TryClickMethods(IF by = 0 THEN {} ELSE by..4, 0, "settled")
    IN  {t.tried[i] : i \in 1..Len(t.tried)}

\* The calls of try_click_methods; a window opens only through a click.
TryCalls ==
    {[op |-> "try_click_methods", pc |-> "called", works |-> works,
      opened |-> opened, wait |-> wait] :
        works \in SUBSET ClickMethods, opened \in 0..(MaxTabs - 1), wait \in WaitOutcomes}

\* A call of try_click_methods returns or raises.
TryClick ==
    /\ out.op = "try_click_methods"
    /\ out.pc = "called"
    /\ out' = [op |-> "try_click_methods", pc |-> "returned", works |-> out.works,
               opened |-> out.opened, wait |-> out.wait,
               ran |-> TryClickMethods(out.works, out.opened, out.wait)]
    /\ UNCHANGED <<ctxVars, batchVars, frame_ctx, scroll_y, browserVars>>

\* A session in which _click_element_node has located a node that is not a
\* file uploader and calls try_click_methods.
InitTry ==
    /\ InitState
    /\ out \in TryCalls
    /\ driver = 1
    /\ live = {1}
    /\ created = 1
    /\ session = 1
    /\ tasks = <<>>
    /\ chrome = "down"
    /\ chrome_instance_path = FALSE

NextTry == TryClick

SpecTry == InitTry /\ [][NextTry]_vars

\* BrowserContext._click_element_node: located, whether get_locate_element
\* found the node; by, the first click method that works; opened, the windows
\* the click opens; wait1 and wait2, the outcomes of the waits at 861 and 878.
ClickElementNode(element_node, located, by, opened, wait1, wait2) ==
    LET nothing == [raised |-> "none", attempted |-> {}, opened |-> 0,
                    switched_to |-> 0, waits |-> <<>>]
    IN  IF ~located
        THEN [nothing EXCEPT !.raised = "Could not locate element from node"]
        ELSE IF IsFileUploader(element_node, 3, 0)
        THEN [nothing EXCEPT !.raised = "Element appears to be a file uploader"]
        ELSE LET tried == [nothing EXCEPT
                               !.attempted = Attempted(by),
                               !.opened = opened,
                               !.switched_to = IF opened > 0 THEN window_handles + 1 ELSE 0,
                               !.waits = IF opened > 0 THEN <<wait1>> ELSE <<>>]
             IN  IF opened > 0 /\ wait1 = "raised"
                 THEN [tried EXCEPT !.raised = "WebDriverException"]
                 ELSE IF by = 0
                 THEN [tried EXCEPT !.raised = "Failed to click element with all methods"]
                 ELSE IF wait2 = "raised"
                 THEN [tried EXCEPT !.raised = "WebDriverException",
                                    !.waits = Append(tried.waits, wait2)]
                 ELSE [tried EXCEPT !.waits = Append(tried.waits, wait2)]

\* What click_element records of a call.
ClickOutcome(element_node, located, by, r, raised, result) ==
    [op |-> "click_element", node |-> element_node, located |-> located,
     by |-> by, attempted |-> r.attempted, opened |-> r.opened,
     handles_before |-> window_handles, switched_to |-> r.switched_to,
     waits |-> r.waits, raised |-> raised, result |-> result]

\* The page of the window the driver is on after the click.
ClickWindowEffect(r) ==
    IF r.switched_to # 0
    THEN \E land \in RequestURLs :
            /\ history' = <<land>>
            /\ hpos' = 1
            /\ page' = Content(land)
            /\ stale' = TRUE
    ELSE UNCHANGED <<history, hpos, page, stale>>

\* click_element with the exception of _click_element_node let through.
ClickResolvedNoCatch(element_node, located, by, opened, wait1, wait2) ==
    /\ mpc = "idle"
    /\ window_handles + opened <= MaxTabs
    /\ LET r == ClickElementNode(element_node, located, by, opened, wait1, wait2)
       IN  /\ window_handles' = window_handles + r.opened
           /\ current_handle' = IF r.switched_to # 0
                                THEN r.switched_to - 1
                                ELSE current_handle
           /\ ClickWindowEffect(r)
           /\ out' = IF IsFileUploader(element_node, 3, 0)
                     THEN ClickOutcome(element_node, located, by, r, "none",
                              ActionResult(Msg("has an element which opens file upload dialog",
                                               "", -1), "", FALSE))
                     ELSE IF r.raised # "none"
                     THEN ClickOutcome(element_node, located, by, r, r.raised, NoResult)
                     ELSE ClickOutcome(element_node, located, by, r, "none",
                              ActionResult(NoMsg, "AttributeError: no attribute 'click'", FALSE))
    /\ UNCHANGED <<allowed_domains, agentVars, heap, cached_state, last, batchVars, frame_ctx, scroll_y, browserVars>>

\* The click_element action from line 159 on, for the node the handle has
\* resolved to.
ClickResolved(element_node, located, by, opened, wait1, wait2) ==
    /\ mpc = "idle"
    /\ window_handles + opened <= MaxTabs
    /\ LET r == ClickElementNode(element_node, located, by, opened, wait1, wait2)
       IN  /\ window_handles' = window_handles + r.opened
           /\ current_handle' = IF r.switched_to # 0
                                THEN r.switched_to - 1
                                ELSE current_handle
           /\ ClickWindowEffect(r)
           /\ out' = IF IsFileUploader(element_node, 3, 0)
                     THEN ClickOutcome(element_node, located, by, r, "none",
                              ActionResult(Msg("has an element which opens file upload dialog",
                                               "", -1), "", FALSE))
                     ELSE IF r.raised # "none"
                     THEN ClickOutcome(element_node, located, by, r, "none",
                              ActionResult(NoMsg, r.raised, FALSE))
                     ELSE ClickOutcome(element_node, located, by, r, "none",
                              ActionResult(NoMsg, "AttributeError: no attribute 'click'", FALSE))
    /\ UNCHANGED <<allowed_domains, agentVars, heap, cached_state, last, batchVars, frame_ctx, scroll_y, browserVars>>

\* A call of _wait_for_page_load on its own (wait_for_load_state).
WaitForLoadState(polls) ==
    /\ mpc = "idle"
    /\ out' = [op |-> "_wait_for_page_load", polls |-> polls,
               outcome |-> WaitForPageLoad(polls),
               phases |-> WaitPhases(polls),
               raised |-> IF WaitForPageLoad(polls) = "raised"
                          THEN "WebDriverException" ELSE "none",
               logged |-> IF WaitForPageLoad(polls) = "timed_out"
                          THEN {Msg("Page load timed out after {timeout} seconds", "", -1)}
                          ELSE {}]
    /\ UNCHANGED <<ctxVars, batchVars, frame_ctx, scroll_y, browserVars>>


(***************************************************************************)
(* The select_dropdown_option action, from the point where the handle has  *)
(* resolved to a node.  A place is 0, the top-level document, or k, its    *)
(* k-th iframe.                                                            *)
(***************************************************************************)
\* The iframes of a page.
MaxFrames == 2

\* The path of the dropdown of the page and the text of its option.
DropdownXPath == "/form/select"
OptionText == "Red"

\* The string literals the action passes to the driver: its placeholders were
\* never filled in (they are no f-strings).
LiteralXPath == "{dropdown_xpath}"
LiteralText == "{text}"

\* WebDriverWait(...presence_of_element_located((By.XPATH, xpath))) followed by
\* Select(dropdown).select_by_visible_text(text), run while the driver is in
\* place, the dropdown of the page being in the place where (-1: the page
\* has none): whether the option gets selected (otherwise an exception
\* is raised: invalid expression, timeout or no such option).
SelectByVisibleText(place, where, xpath, text) ==
    place = where /\ xpath = DropdownXPath /\ text = OptionText

RECURSIVE ScanFrames(_, _, _, _)
\* The loop over the iframes from the k-th on, restore telling whether the
\* except branch and the line after the loop go back to the top-level
\* document: whether the option was selected, the iframes entered and the
\* place the driver is in after the loop.
ScanFrames(k, iframes, where, restore) ==
    IF k > iframes
    THEN [found |-> FALSE, entered |-> 0, place |-> IF restore \/ iframes = 0 THEN 0 ELSE iframes]
    ELSE IF SelectByVisibleText(k, where, LiteralXPath, LiteralText)
    THEN [found |-> TRUE, entered |-> 1, place |-> IF restore THEN 0 ELSE k]
    ELSE LET rest == ScanFrames(k + 1, iframes, where, restore)
         IN  [rest EXCEPT !.entered = rest.entered + 1]

\* What select_dropdown_option does for a node of the given tag on a page
\* with the given iframes; broken: driver.find_elements raises.
SelectOutcome(tag_name, text, iframes, where, broken, restore) ==
    LET base == [op |-> "select_dropdown_option", tag_name |-> tag_name,
                 text |-> text, iframes |-> iframes, where |-> where,
                 selected |-> FALSE, entered |-> 0, place |-> frame_ctx,
                 raised |-> "none", result |-> NoResult]
        success == ActionResult(
                       Msg("Selected option '{text}' from dropdown at index {index}", text, -1),
                       "", FALSE)
    IN  IF tag_name # "select"
        THEN [base EXCEPT !.result = ActionResult(NoMsg, "Element is not a SELECT", FALSE)]
        ELSE IF broken
        THEN [base EXCEPT !.result = ActionResult(NoMsg, "Failed to select dropdown option", FALSE)]
        ELSE IF SelectByVisibleText(frame_ctx, where, LiteralXPath, LiteralText)
        THEN [base EXCEPT !.selected = TRUE, !.result = success]
        ELSE LET scan == ScanFrames(1, iframes, where, restore)
             IN  [base EXCEPT !.selected = scan.found, !.entered = scan.entered,
                              !.place = scan.place, !.result = success]

\* select_dropdown_option without its returns to the top-level document.
SelectDropdownOptionNoRestore(tag_name, text, iframes, where, broken) ==
    /\ mpc = "idle"
    /\ out' = SelectOutcome(tag_name, text, iframes, where, broken, FALSE)
    /\ frame_ctx' = SelectOutcome(tag_name, text, iframes, where, broken, FALSE).place
    /\ UNCHANGED <<ctxVars, batchVars, scroll_y, browserVars>>

\* The select_dropdown_option action.
SelectDropdownOption(tag_name, text, iframes, where, broken) ==
    /\ mpc = "idle"
    /\ out' = SelectOutcome(tag_name, text, iframes, where, broken, TRUE)
    /\ frame_ctx' = SelectOutcome(tag_name, text, iframes, where, broken, TRUE).place
    /\ UNCHANGED <<ctxVars, batchVars, scroll_y, browserVars>>

\* The runs of a click: the node, whether it is located, the first method
\* that works, the windows opened and the outcomes of the two waits.  A choice
\* the code never comes to look at takes one value only: nothing but the node
\* when the file check refuses it, no method when the node is not located, no
\* window when no method works, no first wait when no window opens, no second
\* wait when no method works.
ClickRuns ==
    {run \in [node : ClickNodes, located : BOOLEAN, by : {0} \cup ClickMethods,
              opened : 0..2, wait1 : WaitOutcomes, wait2 : WaitOutcomes] :
        /\ IsFileUploader(run.node, 3, 0) => ~run.located
        /\ ~run.located => run.by = 0
        /\ run.by = 0 => (run.opened = 0 /\ run.wait2 = "settled")
        /\ run.opened = 0 => run.wait1 = "settled"}

NextElement ==
    \/ \E run \in ClickRuns :
          ClickResolved(run.node, run.located, run.by, run.opened, run.wait1, run.wait2)
    \/ \E polls \in PollRuns : WaitForLoadState(polls)
    \/ \E tag_name \in {"select", "div"}, text \in {OptionText, "Blue"},
          iframes \in 0..MaxFrames, broken \in BOOLEAN :
          \E where \in -1..iframes :
             SelectDropdownOption(tag_name, text, iframes, where, broken)

SpecElement == Init /\ [][NextElement]_vars

(***************************************************************************)
(* Browser.get_webdriver and BrowserContext.get_session called by tasks of *)
(* one event loop.  A step of a task is the code it runs between two       *)
(* suspensions; the only suspension of the start-up is the sleep of the    *)
(* loop that waits for the browser process                                 *)
(* (Browser._setup_browser_with_instance).                                 *)
(***************************************************************************)
\* Tasks that call get_webdriver or get_session.
MaxTasks == 2
\* Sleeps of the loop waiting for the browser process (10 in the code).
MaxSleeps == 2
\* WebDriver objects created in a run.
MaxDrivers == 3

Tasks == 1..MaxTasks

\* A task: what it is at ("idle", "sleeping", "done", "failed"), the call it
\* makes, the sleeps it has made, the driver it was given (0: none).
Task(pc, call, sleeps, got) == [pc |-> pc, call |-> call, sleeps |-> sleeps, got |-> got]

\* A Browser and a BrowserContext just constructed; the context's own state
\* is the one its session will start with.
InitBrowser ==
    /\ InitCore
    /\ driver = 0
    /\ live = {}
    /\ created = 0
    /\ session = 0
    /\ tasks = [t \in Tasks |-> Task("idle", "none", 0, 0)]
    /\ chrome \in {"down", "up"}
    /\ chrome_instance_path \in BOOLEAN

\* The cookie file at session start: no file is configured, the configured
\* file does not exist, it is loaded, open() raises or json.load raises.
LoadCookies(cookies_file, exists, readable, wellformed) ==
    IF ~cookies_file THEN "unset"
    ELSE IF ~exists THEN "absent"
    ELSE IF ~readable THEN "OSError"
    ELSE IF ~wellformed THEN "JSONDecodeError"
    ELSE "loaded"

CookieReads ==
    {LoadCookies(c, e, r, w) : c \in BOOLEAN, e \in BOOLEAN, r \in BOOLEAN, w \in BOOLEAN}

\* BrowserContext._initialize_session from the point where get_webdriver has
\* returned the driver d to the task t: the cookie file is read outside any
\* handler, then the session is stored.
InitializeSession(t, d, read) ==
    /\ out' = [op |-> "_initialize_session", cookies |-> read,
               raised |-> IF read \in {"OSError", "JSONDecodeError"} THEN read
                          ELSE "none"]
    /\ IF read \in {"OSError", "JSONDecodeError"}
       THEN /\ tasks' = [tasks EXCEPT ![t] = Task("failed", "get_session", tasks[t].sleeps, 0)]
            /\ UNCHANGED session
       ELSE /\ tasks' = [tasks EXCEPT ![t] = Task("done", "get_session", tasks[t].sleeps, d)]
            /\ session' = d

\* The call of the task t goes on with the driver d that get_webdriver
\* returned: get_webdriver returns it, get_session initialises the session.
GotWebdriver(t, call, d) ==
    IF call = "get_session"
    THEN \E read \in CookieReads : InitializeSession(t, d, read)
    ELSE /\ tasks' = [tasks EXCEPT ![t] = Task("done", call, tasks[t].sleeps, d)]
         /\ UNCHANGED <<session, out>>

\* webdriver.Chrome(...): a new WebDriver, which the task t stores in
\* Browser.driver (Browser._init) and, called through get_session, in the
\* session (BrowserContext._initialize_session).
Connect(t, call) ==
    /\ created < MaxDrivers
    /\ created' = created + 1
    /\ live' = live \cup {created + 1}
    /\ driver' = created + 1
    /\ GotWebdriver(t, call, created + 1)

\* The task t goes to sleep in the loop that waits for the browser process.
Sleep(t, call) ==
    /\ tasks' = [tasks EXCEPT ![t] = Task("sleeping", call, tasks[t].sleeps + 1, 0)]
    /\ UNCHANGED <<driver, live, created, session, out>>

\* Browser.get_webdriver up to its first suspension, called by t directly or
\* through get_session.
StartWebdriver(t, call) ==
    IF driver # 0
    THEN /\ GotWebdriver(t, call, driver)
         /\ UNCHANGED <<driver, live, created, chrome>>
    ELSE IF ~chrome_instance_path
    THEN Connect(t, call) /\ UNCHANGED chrome
    ELSE IF chrome = "up"
    THEN Connect(t, call) /\ UNCHANGED chrome
    ELSE /\ chrome' = "starting"
         /\ Sleep(t, call)

\* A task calls Browser.get_webdriver.
GetWebdriver(t) ==
    /\ tasks[t].pc = "idle"
    /\ StartWebdriver(t, "get_webdriver")
    /\ UNCHANGED <<chrome_instance_path, ctxVars, batchVars, frame_ctx, scroll_y>>

\* A task calls BrowserContext.get_session.
GetSession(t) ==
    /\ tasks[t].pc = "idle"
    /\ IF session # 0
       THEN /\ tasks' = [tasks EXCEPT ![t] = Task("done", "get_session", 0, session)]
            /\ UNCHANGED <<driver, live, created, session, chrome, out>>
       ELSE StartWebdriver(t, "get_session")
    /\ UNCHANGED <<chrome_instance_path, ctxVars, batchVars, frame_ctx, scroll_y>>

\* A sleeping task wakes up: it polls the browser process again, connects
\* when it answers or when the loop is over, and sleeps again otherwise.
\* Connecting to a process that does not answer raises RuntimeError.
Wake(t) ==
    /\ tasks[t].pc = "sleeping"
    /\ IF chrome = "up"
       THEN Connect(t, tasks[t].call)
       ELSE IF tasks[t].sleeps < MaxSleeps
       THEN Sleep(t, tasks[t].call)
       ELSE /\ tasks' = [tasks EXCEPT ![t] = Task("failed", tasks[t].call, tasks[t].sleeps, 0)]
            /\ UNCHANGED <<driver, live, created, session, out>>
    /\ UNCHANGED <<chrome, chrome_instance_path, ctxVars, batchVars, frame_ctx, scroll_y>>

\* The browser process launched by a task starts to answer.
ChromeAnswers ==
    /\ chrome = "starting"
    /\ chrome' = "up"
    /\ UNCHANGED <<driver, live, created, session, tasks, chrome_instance_path,
                   ctxVars, batchVars, elemVars>>

\* A task whose call has ended is ready for another call.
Return(t) ==
    /\ tasks[t].pc \in {"done", "failed"}
    /\ tasks' = [tasks EXCEPT ![t] = Task("idle", "none", 0, 0)]
    /\ UNCHANGED <<driver, live, created, session, chrome, chrome_instance_path,
                   ctxVars, batchVars, elemVars>>

\* BrowserContext.save_cookies: nothing is done when no cookie file is
\* configured; otherwise the cookies are read from the driver, the directory
\* is created and the file is written, all inside one handler that logs
\* what is raised.
SaveCookies(cookies_file, get_cookies_ok, makedirs_ok, write_ok) ==
    IF ~cookies_file THEN "unset"
    ELSE IF ~get_cookies_ok \/ ~makedirs_ok \/ ~write_ok THEN "failed"
    ELSE "saved"

CookieWrites ==
    {SaveCookies(c, g, m, w) : c \in BOOLEAN, g \in BOOLEAN, m \in BOOLEAN, w \in BOOLEAN}

\* A close that clears the session only when the window was closed.
SessionKeptOnFailure(held, window_ok) == IF window_ok THEN 0 ELSE held

\* finally: self.session = None, whatever the try block did.
SessionAfterClose(held, window_ok) == 0

\* BrowserContext.close: nothing is done without a session; otherwise the
\* cookies are saved, the current window is closed when it is not the only
\* one (what this raises is logged) and, whatever happened, the session is
\* cleared.  driver_ops tells whether the driver was operated.
Close(write, window_ok) ==
    /\ \A t \in Tasks : tasks[t].pc = "idle"
    /\ IF session = 0
       THEN /\ out' = [op |-> "close", had_session |-> FALSE, cookies |-> "unset",
                       window |-> "kept", driver_ops |-> FALSE, raised |-> "none",
                       earlier |-> IF out.op = "close" THEN out.window ELSE "none"]
            /\ UNCHANGED <<session, window_handles, current_handle>>
       ELSE /\ out' = [op |-> "close", had_session |-> TRUE, cookies |-> write,
                       window |-> IF ~window_ok THEN "failed"
                                  ELSE IF window_handles > 1 THEN "closed"
                                  ELSE "kept",
                       driver_ops |-> TRUE, raised |-> "none",
                       earlier |-> IF out.op = "close" THEN out.window ELSE "none"]
            /\ window_handles' = IF window_ok /\ window_handles > 1
                                 THEN window_handles - 1 ELSE window_handles
            /\ current_handle' = IF window_ok /\ window_handles > 1
                                 THEN 0 ELSE current_handle
            /\ session' = SessionAfterClose(session, window_ok)
    /\ UNCHANGED <<driver, live, created, tasks, chrome, chrome_instance_path,
                   allowed_domains, agentVars, history, hpos, page, heap, cached_state,
                   stale, last, batchVars, frame_ctx, scroll_y>>

\* Browser.close, after BrowserContext.close: the driver Browser.driver holds
\* is quit.
CloseBrowser ==
    /\ \A t \in Tasks : tasks[t].pc = "idle"
    /\ driver # 0
    /\ live' = live \ {driver}
    /\ driver' = 0
    /\ session' = 0
    /\ UNCHANGED <<created, tasks, chrome, chrome_instance_path, ctxVars, batchVars,
                   elemVars>>

NextBrowser ==
    \/ \E write \in CookieWrites, window_ok \in BOOLEAN : Close(write, window_ok)
    \/ \E t \in Tasks : GetWebdriver(t)
    \/ \E t \in Tasks : GetSession(t)
    \/ \E t \in Tasks : Wake(t)
    \/ \E t \in Tasks : Return(t)
    \/ ChromeAnswers
    \/ CloseBrowser

SpecBrowser == InitBrowser /\ [][NextBrowser]_vars

(***************************************************************************)
(* BrowserContext.reset_context.  The history of the first window, to      *)
(* which the driver returns when other windows were open, is taken to hold *)
(* nothing before the blank page.                                          *)
(***************************************************************************)
\* BrowserContext.reset_context: every window but the first is closed, the
\* first one is sent to about:blank, the cache is replaced by a new initial
\* state, and the page load is waited for (wait is how that wait ends).
ResetContext(wait) ==
    /\ mpc = "idle"
    /\ heap + 1 <= MaxObj
    /\ IF window_handles > 1
       THEN /\ history' = <<BlankURL>>
            /\ hpos' = 1
            /\ page' = Content(BlankURL)
       ELSE /\ history' = Pushed(BlankURL)
            /\ hpos' = Len(Pushed(BlankURL))
            /\ page' = Content(BlankURL)
    /\ window_handles' = 1
    /\ current_handle' = 0
    /\ heap' = heap + 1
    /\ cached_state' = GetInitialState(heap + 1)
    /\ stale' = FALSE
    /\ last' = [Outcome("reset_context") EXCEPT
                    !.driver_nav = TRUE,
                    !.raised = IF wait = "raised" THEN "WebDriverException" ELSE "none"]
    /\ UNCHANGED <<allowed_domains, agentVars, batchVars, elemVars, browserVars>>

\* A session that is navigated, read and reset.
NextReset ==
    \/ GetState
    \/ UpdateState
    \/ \E url \in RequestURLs : NavigateTo(url)
    \/ \E wait \in WaitOutcomes : ResetContext(wait)

SpecReset == Init /\ [][NextReset]_vars

(***************************************************************************)
(* The navigation operations of BrowserContext on their own.               *)
(***************************************************************************)
NextNav ==
    \/ \E url \in NavigateURLs : NavigateTo(url)
    \/ \E wait \in WaitOutcomes : RefreshPage(wait)
    \/ \E wait \in WaitOutcomes : GoBack(wait)
    \/ \E wait \in WaitOutcomes : GoForward(wait)

SpecNav == Init /\ [][NextNav]_vars

(***************************************************************************)
(* The send_keys action.  A key string is the sequence of its tokens: the  *)
(* names of keys, single characters and the separator "+".  What is handed *)
(* to the ActionChains is a special key of selenium's Keys or a text that  *)
(* is typed character by character.                                        *)
(***************************************************************************)
\* Tokens of an arbitrary key string.
MaxKeys == 3
\* Modifiers of a shortcut.
MaxMods == 2

KeyTokens == {"Control", "Enter", "t", "+"}

RECURSIVE Shortcut(_, _)
\* The key string of the shortcut with the modifiers mods and the key k.
Shortcut(mods, k) ==
    IF mods = <<>> THEN <<k>> ELSE <<Head(mods), "+">> \o Shortcut(Tail(mods), k)

\* The key strings sent: every string of up to MaxKeys tokens, and the
\* shortcuts of up to MaxMods modifiers.
KeyStrings ==
    UNION {[1..n -> KeyTokens] : n \in 1..MaxKeys}
    \cup {Shortcut(mods, k) : mods \in UNION {[1..n -> {"Control", "Shift"}] : n \in 1..MaxMods},
                              k \in {"Enter", "t"}}

Key(name) == [kind |-> "key", v |-> <<name>>]
Text(chars) == [kind |-> "text", v |-> chars]

RECURSIVE Split(_)
\* keys.split('+'): the parts between the separators, empty ones included.
Split(keys) ==
    IF \A k \in 1..Len(keys) : keys[k] # "+" THEN <<keys>>
    ELSE LET first == CHOOSE k \in 1..Len(keys) :
                         keys[k] = "+" /\ \A j \in 1..(k - 1) : keys[j] # "+"
         IN  <<SubSeq(keys, 1, first - 1)>> \o Split(SubSeq(keys, first + 1, Len(keys)))

\* The names the action's key_mapping knows that a part of a key string can
\* be equal to; its entries "Control+o" and "Control+Shift+T" hold a "+" and
\* are looked up only for a string without one.
MappedKeys == {"Escape", "Backspace", "Insert", "PageDown", "Delete", "Enter"}

\* key_mapping.get(part, f"'{part}'"): the special key of a known name, and
\* for any other part the part between two apostrophes, as a text.
KeyMapping(part) ==
    IF Len(part) = 1 /\ part[1] \in MappedKeys THEN Key(part[1])
    ELSE Text(<<"'">> \o part \o <<"'">>)

Reverse(s) == [k \in 1..Len(s) |-> s[Len(s) + 1 - k]]

\* The ActionChains the action builds and performs for keys.
KeyChain(keys) ==
    IF \E k \in 1..Len(keys) : keys[k] = "+"
    THEN LET keys_spl == Split(keys)
             modifiers == SubSeq(keys_spl, 1, Len(keys_spl) - 1)
             final_key == keys_spl[Len(keys_spl)]
         IN  [k \in 1..Len(modifiers) |->
                 [do |-> "key_down", value |-> KeyMapping(modifiers[k])]]
             \o <<[do |-> "send_keys", value |-> KeyMapping(final_key)]>>
             \o [k \in 1..Len(modifiers) |->
                    [do |-> "key_up", value |-> KeyMapping(Reverse(modifiers)[k])]]
    ELSE <<[do |-> "send_keys", value |-> KeyMapping(keys)]>>

\* The names of the key_mapping of selenium_snippets.send_keys.
SnippetMappedKeys ==
    {"Enter", "Backspace", "Tab", "Delete", "PageDown", "PageUp", "ArrowDown",
     "ArrowUp", "ArrowLeft", "ArrowRight", "Escape", "Control", "Shift", "Alt"}

\* key_mapping.get(part, f"'{part}'") of the snippet: the text written into
\* the script as the argument of a call, the name of a special key or the
\* part as a string literal.
SnippetKeyMapping(part) ==
    IF Len(part) = 1 /\ part[1] \in SnippetMappedKeys
    THEN [expr |-> "name", v |-> part]
    ELSE [expr |-> "literal", v |-> part]

\* The calls on the ActionChains that the script of
\* selenium_snippets.send_keys(keys) holds, in order.
SendKeysSnippet(keys) ==
    IF \E k \in 1..Len(keys) : keys[k] = "+"
    THEN LET keys_spl == Split(keys)
             modifiers == SubSeq(keys_spl, 1, Len(keys_spl) - 1)
             final_key == keys_spl[Len(keys_spl)]
         IN  [k \in 1..Len(modifiers) |->
                 [do |-> "key_down", arg |-> SnippetKeyMapping(modifiers[k])]]
             \o <<[do |-> "send_keys", arg |-> SnippetKeyMapping(final_key)]>>
             \o [k \in 1..Len(modifiers) |->
                    [do |-> "key_up", arg |-> SnippetKeyMapping(Reverse(modifiers)[k])]]
    ELSE <<[do |-> "send_keys", arg |-> SnippetKeyMapping(keys)]>>

\* The value an argument of the script has when the script runs: Keys.X is
\* the special key, and a string literal is the text between its quotes.
Evaluated(arg) ==
    IF arg.expr = "name" THEN Key(arg.v[1]) ELSE Text(arg.v)

\* What a run of the script does with the focus as it was for the action:
\* the same click on the body when nothing interactive is focused, then the
\* chain of the script.
Replayed(snippet, focused) ==
    (IF focused THEN <<>> ELSE <<[do |-> "click", value |-> Text(<<"body">>)]>>)
    \o [k \in 1..Len(snippet) |->
           [do |-> snippet[k].do, value |-> Evaluated(snippet[k].arg)]]

\* A chain that presses or releases something else than one key: whether
\* the driver performs it or answers with an error is left to the driver.
Doubtful(chain) ==
    \E k \in 1..Len(chain) :
        chain[k].do \in {"key_down", "key_up"} /\ chain[k].value.kind = "text"

\* The send_keys action: the body is clicked when no interactive element
\* holds the focus, then the chain is handed to the driver, whose error, if
\* it answers with one (rejected), is logged and raised again.
SendKeys(keys, focused, rejected) ==
    /\ mpc = "idle"
    /\ rejected => Doubtful(KeyChain(keys))
    /\ out' = [op |-> "send_keys", keys |-> keys, focused |-> focused,
               performed |-> (IF focused THEN <<>>
                              ELSE <<[do |-> "click", value |-> Text(<<"body">>)]>>)
                             \o KeyChain(keys),
               raised |-> IF rejected THEN "WebDriverException" ELSE "none",
               snippet |-> IF rejected THEN <<>> ELSE SendKeysSnippet(keys),
               result |-> IF rejected THEN NoResult
                          ELSE ActionResult(Msg("Sent keys: {keys}", "", -1), "", FALSE)]
    /\ UNCHANGED <<ctxVars, batchVars, frame_ctx, scroll_y, browserVars>>

NextKeys ==
    \E keys \in KeyStrings, focused \in BOOLEAN, rejected \in BOOLEAN :
        SendKeys(keys, focused, rejected)

SpecKeys == Init /\ [][NextKeys]_vars

(***************************************************************************)
(* The scroll_down and scroll_up actions.  The page scrolled is higher     *)
(* than the viewport by MaxScroll pixels; the browser keeps window.scrollY *)
(* between 0 and that.                                                     *)
(***************************************************************************)
\* document.documentElement.scrollHeight - window.innerHeight
MaxScroll == 4
\* The largest amount asked for.
MaxAmount == 3
\* window.innerHeight
InnerHeight == 2

\* ScrollAction.amount when it is given; the parameter is an int.
Amounts == -1..MaxAmount

\* window.scrollBy(0, dy) on a page scrolled to y: where it is scrolled to.
ScrollBy(y, dy) ==
    IF y + dy < 0 THEN 0
    ELSE IF y + dy > MaxScroll THEN MaxScroll
    ELSE y + dy

\* What the script of scroll_down scrolls by.
ScrollDownBy(given, amount) == IF given THEN amount ELSE InnerHeight

\* f'window.scrollBy(0, -{amount});': the amount is written in decimal after
\* a minus sign, so the script of a negative amount reads "--n" and does not
\* parse.  Without an amount the script scrolls by -window.innerHeight.
ScrollUpParses(given, amount) == ~given \/ amount >= 0

ScrollUpBy(given, amount) == IF given THEN 0 - amount ELSE 0 - InnerHeight

\* The scroll_down action.
ScrollDown(given, amount) ==
    /\ mpc = "idle"
    /\ scroll_y' = ScrollBy(scroll_y, ScrollDownBy(given, amount))
    /\ out' = [op |-> "scroll_down", given |-> given, amount |-> amount,
               before |-> scroll_y, raised |-> "none",
               result |-> ActionResult(Msg("Scrolled down the page by {amount}", "", -1),
                                       "", FALSE)]
    /\ UNCHANGED <<ctxVars, batchVars, frame_ctx, browserVars>>

\* scroll_up with the script of scroll_down.
ScrollUpSignDropped(given, amount) ==
    /\ mpc = "idle"
    /\ scroll_y' = ScrollBy(scroll_y, ScrollDownBy(given, amount))
    /\ out' = [op |-> "scroll_up", given |-> given, amount |-> amount,
               before |-> scroll_y, raised |-> "none",
               result |-> ActionResult(Msg("Scrolled up the page by {amount}", "", -1),
                                       "", FALSE)]
    /\ UNCHANGED <<ctxVars, batchVars, frame_ctx, browserVars>>

\* The scroll_up action.
ScrollUp(given, amount) ==
    /\ mpc = "idle"
    /\ IF ScrollUpParses(given, amount)
       THEN /\ scroll_y' = ScrollBy(scroll_y, ScrollUpBy(given, amount))
            /\ out' = [op |-> "scroll_up", given |-> given, amount |-> amount,
                       before |-> scroll_y, raised |-> "none",
                       result |-> ActionResult(
                           Msg("Scrolled up the page by {amount}", "", -1), "", FALSE)]
       ELSE /\ scroll_y' = scroll_y
            /\ out' = [op |-> "scroll_up", given |-> given, amount |-> amount,
                       before |-> scroll_y, raised |-> "JavascriptException",
                       result |-> NoResult]
    /\ UNCHANGED <<ctxVars, batchVars, frame_ctx, browserVars>>

\* The amount of a call without one is written 0.
ScrollParams == {<<TRUE, amount>> : amount \in Amounts} \cup {<<FALSE, 0>>}

NextScroll ==
    \/ \E params \in ScrollParams : ScrollDown(params[1], params[2])
    \/ \E params \in ScrollParams : ScrollUp(params[1], params[2])

SpecScroll == Init /\ [][NextScroll]_vars

(***************************************************************************)
(* DomService: _parse_dom_tree and _build_selector_map on a serialized     *)
(* payload.                                                                *)
(***************************************************************************)
\* The most children one entry of a payload lists.
MaxKids == 2

\* dom_data.get('highlightIndex') of an entry that carries none.
NoHighlight == -1

\* One entry of the payload that buildDOMTree returns.
Entry(type, highlightIndex, children) ==
    [type |-> type, highlightIndex |-> highlightIndex, children |-> children]

\* The sequences of at most MaxKids entries drawn from S.
Lists(S) == UNION {[1..n -> S] : n \in 0..MaxKids}

\* The entries without children: a text, and an element with an index.
LeafEntries ==
    {Entry("TEXT_NODE", NoHighlight, <<>>), Entry("ELEMENT_NODE", 1, <<>>)}

\* The entries one level up: a text, and elements with and without an index.
InnerEntries ==
    {Entry("TEXT_NODE", NoHighlight, <<>>)}
    \cup {Entry("ELEMENT_NODE", h, c) : h \in {NoHighlight, 0}, c \in Lists(LeafEntries)}

\* The payloads: a root element and two levels below it.
Payloads == {Entry("ELEMENT_NODE", NoHighlight, c) : c \in Lists(InnerEntries)}

\* DOMElementNode(...) as _parse_dom_tree constructs it: parent None (0),
\* no children yet.
DOMElementNode(highlight_index) ==
    [kind |-> "element", parent |-> 0, children |-> <<>>,
     highlight_index |-> highlight_index]

\* DOMTextNode(..., parent=root).
DOMTextNode(parent) ==
    [kind |-> "text", parent |-> parent, children |-> <<>>,
     highlight_index |-> NoHighlight]

\* child.parent = root
Adopt(objs, child, root) ==
    [objs EXCEPT ![child].parent = root]

\* The children in the opposite order.
AppendFront(children, child) == <<child>> \o children

\* children.append(child)
AppendChild(children, child) == Append(children, child)

RECURSIVE ParseDomTree(_, _)
RECURSIVE ParseChildren(_, _, _, _, _)
\* The loop of _parse_dom_tree over dom_data['children'] from the k-th entry
\* on: objs are the objects allocated so far, root the object being filled,
\* children the list collected so far. Gives the objects and the list.
ParseChildren(payload, k, objs, root, children) ==
    IF k > Len(payload) THEN [objs |-> objs, children |-> children]
    ELSE IF payload[k].type = "TEXT_NODE"
    THEN LET child == Len(objs) + 1
         IN ParseChildren(payload, k + 1, Append(objs, DOMTextNode(root)),
                          root, AppendChild(children, child))
    ELSE LET sub == ParseDomTree(payload[k], objs)
         IN ParseChildren(payload, k + 1, Adopt(sub.objs, sub.root, root),
                          root, AppendChild(children, sub.root))

\* DomService._parse_dom_tree(dom_data) with the objects allocated so far:
\* the root element is allocated first, its children are built in the order
\* of the payload and root.children is assigned at the end. Gives the
\* objects (an object's identity is its position) and the root.
ParseDomTree(dom_data, objs) ==
    LET root == Len(objs) + 1
        done == ParseChildren(dom_data.children, 1,
                              Append(objs, DOMElementNode(dom_data.highlightIndex)),
                              root, <<>>)
    IN [objs |-> [done.objs EXCEPT ![root].children = done.children],
        root |-> root]

\* A map that takes a highlight index of 0 for no index.
Highlighted(node) ==
    node.kind = "element" /\ node.highlight_index > 0

\* isinstance(node, DOMElementNode) and node.highlight_index is not None
HasHighlight(node) ==
    node.kind = "element" /\ node.highlight_index # NoHighlight

RECURSIVE Traverse(_, _, _)
RECURSIVE TraverseChildren(_, _, _, _)
\* for child in node.children: traverse(child), from the k-th child on.
TraverseChildren(objs, children, k, selector_map) ==
    IF k > Len(children) THEN selector_map
    ELSE TraverseChildren(objs, children, k + 1,
                          Traverse(objs, children[k], selector_map))

\* traverse(node) of _build_selector_map: the map after the visit of node
\* and of everything below it.
Traverse(objs, node, selector_map) ==
    LET here == IF HasHighlight(objs[node])
                THEN (objs[node].highlight_index :> node) @@ selector_map
                ELSE selector_map
    IN IF objs[node].kind = "element"
       THEN TraverseChildren(objs, objs[node].children, 1, here)
       ELSE here

\* DomService._build_selector_map(root): the map from highlight index to
\* object; an empty dict is the function on the empty set.
DomBuildSelectorMap(objs, root) ==
    Traverse(objs, root, [k \in {} |-> 0])

\* The calls of get_selector_map, one for each payload the script returns.
DomCalls == {[op |-> "get_selector_map", pc |-> "called", dom_data |-> p] : p \in Payloads}

\* extract_dom_tree: the payload of the script is parsed.
ExtractDomTree ==
    /\ out.op = "get_selector_map"
    /\ out.pc = "called"
    /\ LET tree == ParseDomTree(out.dom_data, <<>>)
       IN out' = [op |-> "get_selector_map", pc |-> "parsed", dom_data |-> out.dom_data,
                  objs |-> tree.objs, root |-> tree.root]
    /\ UNCHANGED <<ctxVars, batchVars, frame_ctx, scroll_y, browserVars>>

\* get_selector_map: the map is built from the tree just parsed.
DomGetSelectorMap ==
    /\ out.op = "get_selector_map"
    /\ out.pc = "parsed"
    /\ out' = [op |-> "get_selector_map", pc |-> "mapped", dom_data |-> out.dom_data,
               objs |-> out.objs, root |-> out.root,
               selector_map |-> DomBuildSelectorMap(out.objs, out.root)]
    /\ UNCHANGED <<ctxVars, batchVars, frame_ctx, scroll_y, browserVars>>

InitDom ==
    /\ InitState
    /\ allowed_domains = <<>>
    /\ out \in DomCalls
    /\ driver = 1
    /\ live = {1}
    /\ created = 1
    /\ session = 1
    /\ tasks = <<>>
    /\ chrome = "down"
    /\ chrome_instance_path = FALSE

NextDom == ExtractDomTree \/ DomGetSelectorMap

SpecDom == InitDom /\ [][NextDom]_vars

(***************************************************************************)
(* BrowserContext._is_url_allowed on hostnames of every shape.             *)
(***************************************************************************)
\* The longest hostname checked.
MaxHost == 5

\* The hostnames over the characters a, c and the dot, "a.c" among them with
\* its subdomains (c.a.c), the names it is a dotless suffix of (ca.c) and
\* the names it is a prefix of (a.c.c); a name with a capital; a network
\* location that urlparse rejects; and no hostname at all.
CheckedHosts ==
    UNION {[1..n -> {"a", "c", "."}] : n \in 1..MaxHost}
    \cup {<<"A", ".", "c">>, <<"[", "a">>, <<>>}

\* allowed_domains: None or empty, one domain, and a list of two.
CheckedDomains == {<<>>, <<HostAC>>, <<<<"c", ".", "c">>, HostAC>>}

\* The calls of _is_url_allowed.
UrlCalls ==
    {[op |-> "_is_url_allowed", pc |-> "called", domains |-> d,
      url |-> [scheme |-> "https", host |-> h, path |-> "/"]] :
        d \in CheckedDomains, h \in CheckedHosts}

\* One call of _is_url_allowed returns.
IsUrlAllowedCall ==
    /\ out.op = "_is_url_allowed"
    /\ out.pc = "called"
    /\ out' = [op |-> "_is_url_allowed", pc |-> "returned", domains |-> out.domains,
               url |-> out.url,
               logged |-> IF out.domains # <<>> /\ UrlParseRaises(out.url)
                          THEN {Msg("Error checking allowed URL: {e}", "", -1)} ELSE {},
               ret |-> IsUrlAllowed(out.domains, out.url)]
    /\ UNCHANGED <<ctxVars, batchVars, frame_ctx, scroll_y, browserVars>>

InitUrl ==
    /\ InitState
    /\ allowed_domains = <<>>
    /\ out \in UrlCalls
    /\ driver = 1
    /\ live = {1}
    /\ created = 1
    /\ session = 1
    /\ tasks = <<>>
    /\ chrome = "down"
    /\ chrome_instance_path = FALSE

NextUrl == IsUrlAllowedCall

SpecUrl == InitUrl /\ [][NextUrl]_vars

(***************************************************************************)
(* BrowserContext: the tabs.  A tab is named by its position in            *)
(* driver.window_handles, counted from 0.                                  *)
(***************************************************************************)
\* The page of another window the driver has been switched to.
OtherWindow ==
    \E land \in {BlankURL, AllowedURL} :
        /\ history' = <<land>>
        /\ hpos' = 1
        /\ page' = Content(land)
        /\ stale' = TRUE

\* A switch that takes a tab_id equal to the number of tabs.
SwitchTargetInclusive(n, tab_id) ==
    LET resolved == IF tab_id < 0 THEN n + tab_id ELSE tab_id
    IN  IF 0 <= resolved /\ resolved <= n THEN resolved ELSE -1

\* The position switch_to_tab(tab_id) switches to with n tabs open, a
\* negative tab_id counted from the end; -1 when it raises ValueError.
SwitchTarget(n, tab_id) ==
    LET resolved == IF tab_id < 0 THEN n + tab_id ELSE tab_id
    IN  IF 0 <= resolved /\ resolved < n THEN resolved ELSE -1

\* BrowserContext.switch_to_tab
SwitchToTab(tab_id, wait) ==
    /\ mpc = "idle"
    /\ IF SwitchTarget(window_handles, tab_id) = -1
       THEN /\ last' = [Outcome("switch_to_tab") EXCEPT
                            !.index = tab_id, !.raised = "ValueError"]
            /\ UNCHANGED <<current_handle, history, hpos, page, stale>>
       ELSE /\ current_handle' = SwitchTarget(window_handles, tab_id)
            /\ IF current_handle' = current_handle
               THEN UNCHANGED <<history, hpos, page, stale>>
               ELSE OtherWindow
            /\ last' = [Outcome("switch_to_tab") EXCEPT
                            !.index = tab_id,
                            !.steps = <<"switch", "wait">>,
                            !.raised = IF wait = "raised" THEN "WebDriverException"
                                       ELSE "none"]
    /\ UNCHANGED <<allowed_domains, agentVars, window_handles, heap, cached_state,
                   batchVars, elemVars, browserVars>>

\* BrowserContext.create_new_tab without a url: window.open, then
\* switch_to_tab(-1).
CreateNewTab(wait) ==
    /\ mpc = "idle"
    /\ window_handles < MaxTabs
    /\ window_handles' = window_handles + 1
    /\ current_handle' = SwitchTarget(window_handles + 1, -1)
    /\ history' = <<BlankURL>>
    /\ hpos' = 1
    /\ page' = Content(BlankURL)
    /\ stale' = TRUE
    /\ last' = [Outcome("create_new_tab") EXCEPT
                    !.steps = <<"open", "switch", "wait">>,
                    !.raised = IF wait = "raised" THEN "WebDriverException" ELSE "none"]
    /\ UNCHANGED <<allowed_domains, agentVars, heap, cached_state, batchVars, elemVars, browserVars>>

\* No tab is ever the last one.
IsNoTab(handles) == handles <= 0

\* len(driver.window_handles) <= 1
IsLastTab(handles) == handles <= 1

\* BrowserContext.close_current_tab: the last tab is not closed; otherwise
\* the current window is closed and the driver switched to the first one.
CloseCurrentTab(wait) ==
    /\ mpc = "idle"
    /\ IF IsLastTab(window_handles)
       THEN /\ last' = [Outcome("close_current_tab") EXCEPT
                            !.logged = {Msg("Cannot close the last tab", "", -1)}]
            /\ UNCHANGED <<window_handles, current_handle, history, hpos, page, stale>>
       ELSE /\ window_handles' = window_handles - 1
            /\ current_handle' = 0
            /\ OtherWindow
            /\ last' = [Outcome("close_current_tab") EXCEPT
                            !.steps = <<"close", "switch", "wait">>,
                            !.raised = IF wait = "raised" THEN "WebDriverException"
                                       ELSE "none"]
    /\ UNCHANGED <<allowed_domains, agentVars, heap, cached_state, batchVars, elemVars, browserVars>>

\* The values of tab_id.
TabIds == (0 - MaxTabs - 1)..MaxTabs

\* A session whose tabs are opened, switched, closed and reset.
NextTabs ==
    \/ \E wait \in WaitOutcomes : CreateNewTab(wait)
    \/ \E wait \in WaitOutcomes : CloseCurrentTab(wait)
    \/ \E tab_id \in TabIds, wait \in WaitOutcomes : SwitchToTab(tab_id, wait)
    \/ \E wait \in WaitOutcomes : ResetContext(wait)

SpecTabs == Init /\ [][NextTabs]_vars

(***************************************************************************)
(* run_agents.main: the launcher of the agent processes.  A process is     *)
(* "running" until it exits, then "ok" (code 0) or "failed" (another       *)
(* code); the launcher learns of an exit when it polls the process.        *)
(***************************************************************************)
\* A launcher that starts a process with MAX_CONCURRENT already in the list.
MayLaunchOneMore(n) == n <= MAX_CONCURRENT

\* len(running) < MAX_CONCURRENT
MayLaunch(n) == n < MAX_CONCURRENT

\* A launcher that requeues once more.
MayRetryOnceMore(attempts) == attempts < MAX_RETRIES

\* attempts + 1 < MAX_RETRIES
MayRetry(attempts) == attempts + 1 < MAX_RETRIES

\* list.remove(instance): the list without the first entry equal to it.
Remove(list, instance) ==
    IF \A k \in 1..Len(list) : list[k] # instance THEN list
    ELSE LET first == CHOOSE k \in 1..Len(list) :
                         list[k] = instance /\ \A j \in 1..(k - 1) : list[j] # instance
         IN  SubSeq(list, 1, first - 1) \o SubSeq(list, first + 1, Len(list))

\* while pending or running
MainWhile ==
    /\ loop.pc = "while"
    /\ loop' = [loop EXCEPT !.pc = IF pending # <<>> \/ running # <<>>
                                   THEN "fill" ELSE "done"]
    /\ UNCHANGED <<pending, running, procs>>

\* One round of the inner while loop: pending.popitem() takes the item put
\* in last, run_instance starts its process, which is appended to running.
MainLaunch ==
    /\ loop.pc = "fill"
    /\ MayLaunch(Len(running)) /\ pending # <<>>
    /\ LET item == pending[Len(pending)]
           proc == Len(procs) + 1
       IN  /\ pending' = SubSeq(pending, 1, Len(pending) - 1)
           /\ procs' = Append(procs, [instance_id |-> item.instance_id,
                                      attempt |-> item.attempts, state |-> "running"])
           /\ running' = Append(running, [instance_id |-> item.instance_id,
                                          attempts |-> item.attempts, proc |-> proc])
    /\ UNCHANGED loop

\* The inner while loop ends; the for loop starts on a copy of running.
MainFilled ==
    /\ loop.pc = "fill"
    /\ ~(MayLaunch(Len(running)) /\ pending # <<>>)
    /\ loop' = [pc |-> "for", copy |-> running, k |-> 1]
    /\ UNCHANGED <<pending, running, procs>>

\* One round of the for loop: the process is polled; one that has exited is
\* removed from running and, if it failed and may be retried, put back into
\* pending with one more attempt.
MainPoll ==
    /\ loop.pc = "for"
    /\ loop.k <= Len(loop.copy)
    /\ LET instance == loop.copy[loop.k]
           ret == procs[instance.proc].state
       IN  IF ret = "running"
           THEN UNCHANGED <<pending, running>>
           ELSE /\ running' = Remove(running, instance)
                /\ pending' = IF ret = "failed" /\ MayRetry(instance.attempts)
                              THEN Append(pending, Item(instance.instance_id,
                                                        instance.attempts + 1))
                              ELSE pending
    /\ loop' = [loop EXCEPT !.k = loop.k + 1]
    /\ UNCHANGED procs

\* The for loop ends; time.sleep(1), and back to the loop's condition.
MainSleep ==
    /\ loop.pc = "for"
    /\ loop.k > Len(loop.copy)
    /\ loop' = [pc |-> "while", copy |-> <<>>, k |-> 0]
    /\ UNCHANGED <<pending, running, procs>>

\* A running agent process exits, with code 0 or with another code.
ProcExits(p) ==
    /\ procs[p].state = "running"
    /\ \E state \in {"ok", "failed"} : procs' = [procs EXCEPT ![p].state = state]
    /\ UNCHANGED <<pending, running, loop>>

\* The variables of the browser session, which the launcher does not touch.
SessionUnchanged ==
    UNCHANGED <<allowed_domains, history, hpos, page, window_handles, current_handle,
                heap, cached_state, stale, last, batchVars, elemVars, browserVars>>

MainStep ==
    (MainWhile \/ MainLaunch \/ MainFilled \/ MainPoll \/ MainSleep) /\ SessionUnchanged

ProcStep ==
    (\E p \in 1..Len(procs) : ProcExits(p)) /\ SessionUnchanged

NextAgents ==
    \/ MainWhile /\ SessionUnchanged
    \/ MainLaunch /\ SessionUnchanged
    \/ MainFilled /\ SessionUnchanged
    \/ MainPoll /\ SessionUnchanged
    \/ MainSleep /\ SessionUnchanged
    \/ ProcStep

\* The launcher with a main loop that keeps running and processes that all
\* exit in the end.
InitAgents == Init /\ allowed_domains = <<>>

SpecAgents ==
    /\ InitAgents
    /\ [][NextAgents]_vars
    /\ WF_vars(MainStep)
    /\ \A p \in 1..(NUM_INSTANCES * MAX_RETRIES) :
          WF_vars(p <= Len(procs) /\ ProcExits(p) /\ SessionUnchanged)

(***************************************************************************)
(* Properties.                                                             *)
(***************************************************************************)
\* C1: a get_state call that directly follows another get_state call returns
\* the very BrowserState object the first one returned, which is the cached
\* one, and runs the extraction script not once.
C1_GetStateIdempotent ==
    [][(last'.op = "get_state" /\ last'.streak = 2)
          => /\ last.op = "get_state"
             /\ last'.ret.sid = last.ret.sid
             /\ last'.ret = cached_state
             /\ last'.extractions = 0
             /\ heap' = heap]_vars

\* Two get_state calls in a row on a session whose cache holds a recomputed
\* state with elements.
C1_Witness ==
    /\ last.op = "get_state"
    /\ last.streak = 2
    /\ last.ret.selector_map # <<>>

\* C2: the state a get_state call returns is not a cached state that was
\* stored before the latest operation that changed the page.
C2_NoStaleStateAfterPageChange ==
    (last.op = "get_state" /\ last.ret.sid = cached_state.sid) => ~stale

\* C3: every node in the selector map of a recomputed state is a node of
\* that state's own element tree.
C3_SelectorMapNodesInTree ==
    \A k \in 1..Len(cached_state.selector_map) :
        cached_state.selector_map[k] \in TreeNodes(cached_state.element_tree)

\* C4: in a batch with check_for_new_elements, no handle-addressed action
\* other than the first acts on a page that shows an interactive element whose
\* fingerprint is outside the set captured when the batch began.
C4_StopsOnNewElements ==
    check_for_new_elements
    => \A k \in 1..Len(executed) :
          (executed[k].i # 0 /\ executed[k].index # -1
              /\ executed[k].why \in {"typed", "clicked"})
          => executed[k].page \subseteq cached_path_hashes

\* C9: a run of _update_state that fails part-way leaves session.cached_state
\* exactly as it was.
C9_FailedUpdateKeepsCache ==
    [][(last'.op = "_update_state" /\ last'.caught # "none")
          => cached_state' = cached_state]_vars

\* A failed recomputation on a session whose cache held a recomputed state
\* with elements, which the cache still holds.
C9_Witness ==
    /\ last.op = "_update_state"
    /\ last.caught \in UpdateFailures
    /\ cached_state.selector_map # <<>>
    /\ last.ret.sid # cached_state.sid

\* The controller's actions.
ActionOps == {"search_google", "go_to_url", "go_back_action", "click_element",
              "input_text", "open_tab"}

\* C5: an action on which the handle was missing from a selector map, the
\* element was not located or the typing failed returns an ActionResult with
\* its error set, and raises nothing.
C5_ErrorsReturnedNotRaised ==
    (last.op \in ActionOps
        /\ last.why \in {"index_missing", "none_node", "not_located", "send_keys_failed"})
    => (last.raised = "none" /\ last.result.error # "")

\* C6: input_text with the sensitive flag puts the literal text in no log
\* message, not in the content of its ActionResult and in no replay snippet.
C6_SensitiveTextNeverEmitted ==
    (last.op = "input_text" /\ last.sensitive)
    => /\ \A m \in last.logged : m.text # last.text
       /\ last.result.extracted_content.text # last.text
       /\ \A sn \in last.snippet : sn.text # last.text

\* The hostname of url is an entry of domains or a subdomain of one.
HostMatches(domains, url) ==
    \E i \in 1..Len(domains) :
        \/ Hostname(url) = domains[i]
        \/ /\ Len(Hostname(url)) > Len(domains[i])
           /\ \A k \in 1..Len(domains[i]) :
                 Hostname(url)[Len(Hostname(url)) - Len(domains[i]) + k] = domains[i][k]
           /\ Hostname(url)[Len(Hostname(url)) - Len(domains[i])] = "."

C8_DisallowedNavigationRaises ==
    (last.op \in ActionOps
        /\ allowed_domains # <<>>
        /\ CurrentURL # last.pre_url
        /\ ~HostMatches(allowed_domains, CurrentURL)
        /\ Hostname(CurrentURL) # <<>>)
    => last.raised = "URLNotAllowedError"

\* C10: when the extraction script throws, the call of the core raises
\* nothing, and a state recomputation returns an empty single-root tree and
\* an empty selector map.
C10_ExtractionFailureRecovered ==
    last.extract_threw
    => /\ last.raised = "none"
       /\ last.op = "_update_state"
             => (last.ret.element_tree = EmptyRoot /\ last.ret.selector_map = <<>>)

\* The text content of the page element e is that of the node.
SameText(node, e) ==
    NonBlank(Flatten(node.children)) /\ Flatten(e.children) = Flatten(node.children)

\* C11: when the path and the selectors of a node match nothing on the page
\* and the driver answers, get_locate_element returns, through the text
\* strategy, an element with the node's text if the page has one, and
\* otherwise returns None; it raises nothing.
C11_TextFallbackLocates ==
    (out.op = "get_locate_element" /\ out.pc = "returned" /\ out.faults = {}
        /\ FindByXPath(out.doc, out.node.xpath) = 0
        /\ FindByCss(out.doc, SimpleSelector(out.node)) = 0)
    => /\ out.raised = "none"
       /\ IF \E k \in 1..Len(out.doc) : SameText(out.node, out.doc[k])
          THEN out.via = "text" /\ out.ret # 0
          ELSE out.via \in {"text", "none"}

RECURSIVE ContainsFileInput(_)
\* The node is an input of type file or has one below it, at any depth.
ContainsFileInput(element_node) ==
    \/ element_node.tag_name = "input" /\ element_node.type = "file"
    \/ \E k \in 1..Len(element_node.children) :
          ContainsFileInput(element_node.children[k])

\* C12: click_element on a node that is a file input, or has one below it at
\* any depth, dispatches no click method.
C12_FileInputNeverClicked ==
    (out.op = "click_element" /\ ContainsFileInput(out.node))
    => out.attempted = {}

\* C13: when a click has opened windows, click_element returns with the
\* driver on the newest window handle and with the page-settle wait made on
\* it after the switch having returned.
C13_NewWindowActiveAndSettled ==
    (out.op = "click_element" /\ out.opened > 0)
    => /\ out.switched_to = out.handles_before + out.opened
       /\ out.waits # <<>>
       /\ out.waits[1] \in {"settled", "timed_out"}

\* C14: a click_element call in which the node was located and each of the
\* four click methods failed raises nothing and returns an ActionResult with
\* its error set, and it leaves the session (its cached state, its windows,
\* the page the driver is on) as it was.
C14_ExhaustedClickReturnsError ==
    [][(out'.op = "click_element" /\ out'.located /\ out'.by = 0
           /\ out'.attempted = ClickMethods)
          => /\ out'.raised = "none"
             /\ out'.result.error # ""
             /\ cached_state' = cached_state
             /\ window_handles' = window_handles
             /\ history' = history /\ hpos' = hpos]_vars

\* A click on a located button on which all four methods were dispatched and
\* failed, with two windows open.
C14_Witness ==
    /\ out.op = "click_element"
    /\ out.located
    /\ out.by = 0
    /\ out.attempted = ClickMethods
    /\ out.result.error = "Failed to click element with all methods"
    /\ window_handles = 2

\* C19: every page-settle wait returns normally: a call of
\* _wait_for_page_load raises nothing, logging a warning when the document
\* was never complete within the timeout, and no wait made by a click raises
\* into the click.
C19_WaitReturnsNormally ==
    /\ out.op = "_wait_for_page_load"
          => /\ out.raised = "none"
             /\ out.outcome = "timed_out" => out.logged # {}
    /\ out.op = "click_element"
          => \A k \in 1..Len(out.waits) : out.waits[k] # "raised"

\* C15: select_dropdown_option on a select element whose option got selected
\* neither in the main document nor in an iframe returns an ActionResult
\* with its error set, not the success message.
C15_UnselectedOptionIsFailure ==
    (out.op = "select_dropdown_option" /\ out.tag_name = "select" /\ ~out.selected)
    => /\ out.result.error # ""
       /\ out.result.extracted_content = NoMsg

\* C16: when select_dropdown_option has returned, the driver's execution
\* context is the top-level document.
C16_TopLevelContextOnReturn ==
    out.op = "select_dropdown_option" => frame_ctx = 0

\* A select_dropdown_option call that entered both iframes of a page whose
\* dropdown is in the second, and is back in the top-level document.
C16_Witness ==
    /\ out.op = "select_dropdown_option"
    /\ out.iframes = 2
    /\ out.where = 2
    /\ out.entered = 2
    /\ frame_ctx = 0

\* An ActionResult that ends a batch.
Ending(result) == result.error # "" \/ result.is_done

\* C17: while multi_act runs and when it has returned, the actions executed
\* are the first ones of the batch, in order; the result list holds their
\* results in that order (followed, at most, by the entry of a stop for new
\* elements) and is no longer than the batch; no entry but the last has an
\* error or is_done; and the loop goes on only after a result with neither,
\* and returns only after a result with one of them, after the final action,
\* or on a stop for new elements.
C17_BatchStopsAtFirstEnding ==
    mpc \in {"loop", "returned"}
    => /\ Len(results) <= Len(batch)
       /\ \A k \in 1..Len(executed) :
             /\ executed[k].i = k - 1
             /\ executed[k].action = batch[k]
             /\ results[k] = executed[k].result
       /\ Len(results) \in {Len(executed), Len(executed) + 1}
       /\ Len(results) = Len(executed) + 1
             => results[Len(results)] = StopEntry(Len(executed))
       /\ \A k \in 1..(Len(results) - 1) : ~Ending(results[k])
       /\ mpc = "loop"
             => /\ Len(results) = bi
                /\ Len(results) < Len(batch)
                /\ \A k \in 1..Len(results) : ~Ending(results[k])
       /\ mpc = "returned"
             => \/ Ending(results[Len(results)])
                \/ Len(results) = Len(batch)
                \/ Len(results) = Len(executed) + 1

\* A batch of two actions has returned after its first action, whose result
\* has an error: the second was not executed.
C17_Witness ==
    /\ mpc = "returned"
    /\ Len(batch) = 2
    /\ Len(executed) = 1
    /\ Len(results) = 1
    /\ results[1].error # ""

\* C18: in a run of multi_act the callback is the first thing to happen;
\* every action is executed right after a consultation of the callback that
\* returned; and a consultation that raised is the last thing to happen: no
\* action is executed after it.
C18_CallbackBetweenActions ==
    /\ mpc # "idle" => (events # <<>> /\ events[1] \in {"check", "raise"})
    /\ \A k \in 1..Len(events) :
          /\ events[k] = "act" => (k > 1 /\ events[k - 1] = "check")
          /\ events[k] = "raise" => (k = Len(events) /\ mpc = "cancelled")
    /\ Cardinality({k \in 1..Len(events) : events[k] = "act"}) = Len(executed)
    /\ mpc = "cancelled" => events[Len(events)] = "raise"

\* The callback raised between the first and the second action of a batch of
\* two: one action was executed.
C18_Witness ==
    /\ mpc = "cancelled"
    /\ Len(batch) = 2
    /\ Len(executed) = 1
    /\ executed[1].raised = "none"

\* C20: at no time between the construction of a Browser and its close() are
\* there two live WebDrivers created by it.
C20_AtMostOneLiveDriver ==
    Cardinality(live) <= 1

\* C21: a failure while writing the snippet file never makes the action fail:
\* when go_to_url has navigated and the write of its snippet failed, the
\* action raises nothing and returns its normal ActionResult.
C21_SnippetWriteFailureNotFatal ==
    (last.op = "go_to_url" /\ last.saved = "failed")
    => /\ last.driver_nav
       /\ last.raised = "none"
       /\ last.result = ActionResult(Msg("Navigated to {url}", "", -1), "", FALSE)

\* C22: a failure to read the cookie file at session start, or to write it
\* at session end, is never fatal: _initialize_session raises nothing on an
\* unreadable or malformed file, and close() with a failed save raises nothing
\* and leaves the context without a session.
C22_CookieFailuresNotFatal ==
    /\ (out.op = "_initialize_session" /\ out.cookies \in {"OSError", "JSONDecodeError"})
       => out.raised = "none"
    /\ (out.op = "close" /\ out.cookies = "failed")
       => (out.raised = "none" /\ session = 0)

\* C23: on a blank page, that is right after the session has started or
\* after reset_context, the current BrowserState (the one get_state returns)
\* has a tree of the synthetic root alone, an empty selector map, one tab and
\* the URL about:blank.
C23_BlankStateShape ==
    (last.op \in {"init", "reset_context"})
    => /\ cached_state # NoState
       /\ cached_state.element_tree = EmptyRoot
       /\ cached_state.selector_map = <<>>
       /\ cached_state.tabs = 1
       /\ cached_state.url = BlankURL

\* The driver's operation of refresh_page, go_back and go_forward.
DriverOperation(op) ==
    IF op = "refresh_page" THEN "refresh"
    ELSE IF op = "go_back" THEN "back"
    ELSE "forward"

Modifiers == {"Control", "Shift", "Alt"}

\* A key string m1+...+mn+k: modifiers and a single key, separated by "+".
IsShortcut(keys) ==
    /\ Len(keys) >= 3
    /\ Len(keys) % 2 = 1
    /\ \A k \in 1..Len(keys) :
          IF k % 2 = 0 THEN keys[k] = "+"
          ELSE IF k < Len(keys) THEN keys[k] \in Modifiers
          ELSE keys[k] # "+"

\* C25: for a shortcut m1+...+mn+k, send_keys presses the modifier keys
\* m1..mn in this order, sends k, and releases the modifier keys in the order
\* mn..m1, each pressed modifier being released once; without a focused
\* element the body is clicked before any key.
C25_ModifiersPressedAndReleased ==
    (out.op = "send_keys" /\ IsShortcut(out.keys))
    => LET n == (Len(out.keys) - 1) \div 2
           off == IF out.focused THEN 0 ELSE 1
           p == out.performed
       IN  /\ Len(p) = off + 2 * n + 1
           /\ ~out.focused => p[1].do = "click"
           /\ \A i \in 1..n :
                 /\ p[off + i] = [do |-> "key_down", value |-> Key(out.keys[2 * i - 1])]
                 /\ p[off + 2 * n + 2 - i]
                        = [do |-> "key_up", value |-> Key(out.keys[2 * i - 1])]
           /\ p[off + n + 1].do = "send_keys"

\* C26: scroll_up by a positive amount strictly decreases a positive scroll
\* offset and leaves an offset of 0 at 0; with no amount the page is scrolled
\* up by one viewport height; the offset is never negative.
C26_ScrollUpDecreases ==
    [][(out'.op = "scroll_up" /\ out'.raised = "none")
       => /\ scroll_y' >= 0
          /\ (out'.given /\ out'.amount > 0)
             => (IF scroll_y > 0 THEN scroll_y' < scroll_y ELSE scroll_y' = 0)
          /\ ~out'.given
             => scroll_y' = (IF scroll_y > InnerHeight THEN scroll_y - InnerHeight ELSE 0)]_vars

\* scroll_up by a positive amount has taken a page that was scrolled down
\* further than the amount part of the way up.
C26_Witness ==
    /\ out.op = "scroll_up"
    /\ out.given
    /\ out.amount > 0
    /\ out.before > out.amount
    /\ scroll_y > 0
    /\ scroll_y < out.before

\* Strategy k is tried with success on a call: its find_element is called,
\* the driver answers and an element is found.
Succeeds(call, k) ==
    Applicable(call.node, k) /\ k \notin call.faults /\ Find(call.node, call.doc, k) # 0

\* C27: get_locate_element tries its strategies in the order path,
\* synthesized selector, simpler selector, text, and returns the element
\* found by the first that succeeds: the strategies tried are in increasing
\* order, every one before the last has failed, none is tried after one that
\* succeeded, and None is returned only when none succeeds.
C27_FirstSuccessWins ==
    (out.op = "get_locate_element" /\ out.pc = "returned")
    => /\ \A i, j \in 1..Len(out.attempted) : i < j => out.attempted[i] < out.attempted[j]
       /\ \A i \in 1..Len(out.attempted) :
             /\ out.attempted[i] \in Strategies
             /\ Applicable(out.node, out.attempted[i])
             /\ i < Len(out.attempted) => ~Succeeds(out, out.attempted[i])
       /\ IF \E k \in Strategies : Succeeds(out, k)
          THEN LET first == CHOOSE k \in Strategies :
                               Succeeds(out, k) /\ \A j \in 1..(k - 1) : ~Succeeds(out, j)
               IN  /\ out.ret = Find(out.node, out.doc, first)
                   /\ out.via = StrategyName(first)
                   /\ out.attempted[Len(out.attempted)] = first
          ELSE out.ret = 0 /\ out.via = "none"

\* A call on which the simpler selector found the element after the path
\* and the synthesized selector had failed, and on which the text would have
\* found another element: the text was not tried.
C27_Witness ==
    /\ out.op = "get_locate_element"
    /\ out.pc = "returned"
    /\ out.faults = {}
    /\ out.attempted = <<1, 2, 3>>
    /\ out.via = "simple"
    /\ Succeeds(out, 4)
    /\ Find(out.node, out.doc, 4) # out.ret

\* C28: in get_locate_element a strategy is followed by the next one only
\* when it failed with NoSuchElementException: at the first strategy tried
\* at which the driver raises another fault, the resolution ends and the
\* fault is raised to the caller.
C28_DriverFaultPropagates ==
    (out.op = "get_locate_element" /\ out.pc = "returned"
        /\ \E i \in 1..Len(out.attempted) : out.attempted[i] \in out.faults)
    => /\ out.raised # "none"
       /\ out.attempted[Len(out.attempted)] \in out.faults
       /\ \A i \in 1..(Len(out.attempted) - 1) : out.attempted[i] \notin out.faults

\* C29: for a located element that is not a file uploader the click methods
\* are dispatched in their order, native click first; a method is dispatched
\* only if every earlier one has raised; the attempts stop at the first
\* method that does not raise, so at most one method succeeds; True is
\* returned exactly when some method works.
C29_ClickMethodsInOrder ==
    (out.op = "try_click_methods" /\ out.pc = "returned")
    => LET tried == out.ran.tried
       IN  /\ Len(tried) >= 1
           /\ \A i \in 1..Len(tried) : tried[i] = i
           /\ \A i \in 1..(Len(tried) - 1) : tried[i] \notin out.works
           /\ Cardinality({i \in 1..Len(tried) : tried[i] \in out.works}) <= 1
           /\ IF out.works # {}
              THEN /\ out.ran.success
                   /\ out.ran.by = tried[Len(tried)]
                   /\ out.ran.by \in out.works
              ELSE /\ ~out.ran.success
                   /\ out.ran.by = 0
                   /\ Len(tried) = Cardinality(ClickMethods)

\* The native click has raised, the script-dispatched click has succeeded,
\* and the pointer-simulated clicks, which would have worked, were not made.
C29_Witness ==
    /\ out.op = "try_click_methods"
    /\ out.pc = "returned"
    /\ out.works = {2, 3, 4}
    /\ out.ran.tried = <<1, 2>>
    /\ out.ran.by = 2
    /\ out.ran.success

\* C30 (as stated): every page-settle wait that returns goes through the
\* minimum delay, then the ready-state polling, then the network-idle grace
\* period.
C30_AllPhasesInOrder ==
    (out.op = "_wait_for_page_load" /\ out.raised = "none")
        => out.phases = <<"minimum_wait", "ready_state", "network_idle">>

\* C30: every page-settle wait starts with the minimum delay, polls the ready
\* state next, at most as often as the timeout allows, and enters the
\* network-idle grace period last and exactly when a poll found the document
\* complete; a wait whose polling timed out, or whose poll raised, ends
\* after the polling.
C30_PhasesInOrder ==
    out.op = "_wait_for_page_load"
        => /\ Len(out.phases) >= 2
           /\ out.phases[1] = "minimum_wait"
           /\ out.phases[2] = "ready_state"
           /\ Len(out.polls) <= MaxPolls
           /\ \A k \in 1..Len(out.phases) :
                 out.phases[k] = "network_idle"
                     => k = 3 /\ \E n \in 1..Len(out.polls) : out.polls[n] = "complete"
           /\ out.outcome = "settled"
                 <=> out.phases = <<"minimum_wait", "ready_state", "network_idle">>
           /\ out.outcome \in {"timed_out", "raised"}
                 <=> out.phases = <<"minimum_wait", "ready_state">>

C30_Witness ==
    /\ out.op = "_wait_for_page_load"
    /\ out.outcome = "timed_out"
    /\ out.raised = "none"
    /\ out.phases = <<"minimum_wait", "ready_state">>

RECURSIVE Built(_, _, _)
\* The object node is what the payload entry asks for: a text exactly for a
\* TEXT_NODE entry, and an element with one child for each entry listed, in
\* the order of the list, every child naming node as its parent.
Built(objs, node, entry) ==
    /\ objs[node].kind = "text" <=> entry.type = "TEXT_NODE"
    /\ objs[node].kind = "element"
          => /\ Len(objs[node].children) = Len(entry.children)
             /\ \A k \in 1..Len(entry.children) :
                   /\ objs[node].children[k] \in 1..Len(objs)
                   /\ objs[objs[node].children[k]].parent = node
                   /\ Built(objs, objs[node].children[k], entry.children[k])

\* The places where the object o is listed as a child.
ListedAt(objs, o) ==
    {<<p, k>> \in (1..Len(objs)) \X (1..MaxKids + 1) :
        k <= Len(objs[p].children) /\ objs[p].children[k] = o}

\* C31: the tree that _parse_dom_tree returns has, for every entry of the
\* payload, one child per listed entry in the order of the payload, a text
\* node exactly for the entries of type TEXT_NODE and an element otherwise,
\* each child naming as parent the node that lists it; the root has no
\* parent and every other object is listed once, by one node.
C31_ParsedTreeFollowsPayload ==
    (out.op = "get_selector_map" /\ out.pc # "called")
        => /\ Built(out.objs, out.root, out.dom_data)
           /\ out.objs[out.root].parent = 0
           /\ ListedAt(out.objs, out.root) = {}
           /\ \A o \in 1..Len(out.objs) :
                 o # out.root => Cardinality(ListedAt(out.objs, o)) = 1

C31_Witness ==
    /\ out.op = "get_selector_map"
    /\ out.pc = "parsed"
    /\ Len(out.dom_data.children) = 2
    /\ out.dom_data.children[1].type = "ELEMENT_NODE"
    /\ Len(out.dom_data.children[1].children) = 2
    /\ out.dom_data.children[1].children[1].type = "TEXT_NODE"
    /\ out.dom_data.children[1].children[2].type = "ELEMENT_NODE"
    /\ out.dom_data.children[2].type = "TEXT_NODE"
    /\ Len(out.objs) = 5
    /\ out.objs[out.root].children = <<2, 5>>
    /\ out.objs[2].children = <<3, 4>>

RECURSIVE Below(_, _)
\* The objects reachable from node through the children lists, node included.
Below(objs, node) ==
    {node} \cup UNION {Below(objs, objs[node].children[k]) :
                          k \in 1..Len(objs[node].children)}

\* The element nodes reachable from root that carry a highlight index.
Indexed(objs, root) ==
    {o \in Below(objs, root) :
        objs[o].kind = "element" /\ objs[o].highlight_index # NoHighlight}

\* C32: the keys of the map that _build_selector_map returns are exactly the
\* highlight indices of the element nodes reachable from the root, and every
\* key k is mapped to such a node whose highlight index is k, so that no text
\* node and no element without an index is in the map.
C32_SelectorMapIsTheIndexedElements ==
    (out.op = "get_selector_map" /\ out.pc = "mapped")
        => /\ DOMAIN out.selector_map
                 = {out.objs[o].highlight_index : o \in Indexed(out.objs, out.root)}
           /\ \A k \in DOMAIN out.selector_map :
                 /\ out.selector_map[k] \in Indexed(out.objs, out.root)
                 /\ out.objs[out.selector_map[k]].highlight_index = k

C32_Witness ==
    /\ out.op = "get_selector_map"
    /\ out.pc = "mapped"
    /\ DOMAIN out.selector_map = {0, 1}
    /\ Cardinality(Indexed(out.objs, out.root)) = 3
    /\ \E o \in 1..Len(out.objs) : out.objs[o].kind = "text"
    /\ \E o \in 2..Len(out.objs) :
          out.objs[o].kind = "element" /\ out.objs[o].highlight_index = NoHighlight

\* C33: for every key string the script that the send_keys action emits
\* does, when run, what the action did: the same key-down, key-press and
\* key-up steps on the same keys and texts.
C33_SnippetReplaysTheAction ==
    (out.op = "send_keys" /\ out.raised = "none")
        => Replayed(out.snippet, out.focused) = out.performed

\* C34: whenever the existence check of click_element or input_text finds
\* the handle in its selector map, the action goes on with the element that
\* this map has for the handle, and does not fail with 'could not be found
\* in the DOM'.
C34_CheckedMapIsResolvedMap ==
    (last.op \in {"click_element", "input_text"} /\ last.checked # "")
        => /\ last.why # "none_node"
           /\ last.node = last.checked

\* The hostname is the domain, or ends with a dot followed by the domain.
DomainCovers(domain, hostname) ==
    \/ hostname = domain
    \/ /\ Len(hostname) > Len(domain)
       /\ hostname[Len(hostname) - Len(domain)] = "."
       /\ \A k \in 1..Len(domain) :
             hostname[Len(hostname) - Len(domain) + k] = domain[k]

\* C35 (as stated): _is_url_allowed is true exactly when allowed_domains is
\* empty, or the URL has no hostname, or the hostname is an allowed domain
\* or ends with a dot followed by one.
C35_AllowedExactlyWhenCovered ==
    (out.op = "_is_url_allowed" /\ out.pc = "returned")
        => (out.ret <=>
               \/ out.domains = <<>>
               \/ Hostname(out.url) = <<>>
               \/ \E i \in 1..Len(out.domains) :
                     DomainCovers(out.domains[i], Hostname(out.url)))

\* C35: _is_url_allowed is true exactly when allowed_domains is empty, or
\* parsing the URL raises (which is logged), or the URL has no hostname, or
\* the hostname is an allowed domain or ends with a dot followed by one; a
\* hostname of which an allowed domain is only a dotless suffix, or only a
\* prefix, is rejected.
C35_AllowedExactlyWhenCoveredOrUnparsed ==
    (out.op = "_is_url_allowed" /\ out.pc = "returned")
        => /\ out.ret <=>
                 \/ out.domains = <<>>
                 \/ UrlParseRaises(out.url)
                 \/ Hostname(out.url) = <<>>
                 \/ \E i \in 1..Len(out.domains) :
                       DomainCovers(out.domains[i], Hostname(out.url))
           /\ (out.domains = <<HostAC>>
                  /\ Hostname(out.url) \in {<<"c", "a", ".", "c">>, <<"a", ".", "c", ".", "c">>})
                 => ~out.ret

C35_Witness ==
    /\ out.op = "_is_url_allowed"
    /\ out.pc = "returned"
    /\ out.domains = <<HostAC>>
    /\ Hostname(out.url) = <<"c", "a", ".", "c">>
    /\ ~out.ret

\* C36: after every create_new_tab, close_current_tab, switch_to_tab and
\* reset_context at least one tab is open and the window the driver is
\* switched to is one of the open ones; close_current_tab with one tab open
\* closes nothing.
C36_OneTabStaysAndIsCurrent ==
    [][/\ window_handles' >= 1
       /\ current_handle' \in 0..(window_handles' - 1)
       /\ (last'.op = "close_current_tab" /\ window_handles = 1)
             => (window_handles' = 1 /\ current_handle' = current_handle)]_vars

\* close_current_tab has been called with a single tab open, after tabs were
\* opened and closed.
C36_Witness ==
    /\ last.op = "close_current_tab"
    /\ last.steps = <<>>
    /\ window_handles = 1
    /\ heap > 1

\* C37: with n tabs open, switch_to_tab(t) for -n <= t < n makes the tab at
\* position t current, counted from the end when t is negative; for every
\* other t it raises ValueError and the current tab stays.
C37_SwitchInRangeOrValueError ==
    [][last'.op = "switch_to_tab"
        => IF 0 - window_handles <= last'.index /\ last'.index < window_handles
           THEN /\ last'.raised # "ValueError"
                /\ current_handle' = IF last'.index >= 0 THEN last'.index
                                     ELSE window_handles + last'.index
                /\ window_handles' = window_handles
           ELSE /\ last'.raised = "ValueError"
                /\ current_handle' = current_handle
                /\ window_handles' = window_handles]_vars

\* A tab other than the first is current and a switch out of range was
\* refused.
C37_Witness ==
    /\ last.op = "switch_to_tab"
    /\ last.raised = "ValueError"
    /\ last.index = 0 - window_handles - 1
    /\ window_handles = 2
    /\ current_handle = 1

\* C38: a call of close() leaves the context without a session, also when
\* the cookies could not be saved or the window could not be closed, and a
\* call of close() on a context without a session operates no driver: no
\* window is closed and none is switched to.
C38_CloseClearsSessionOnce ==
    [][(out'.op = "close" /\ out' # out)
          => /\ session' = 0
             /\ out'.raised = "none"
             /\ session = 0
                   => /\ ~out'.driver_ops
                      /\ out'.cookies = "unset"
                      /\ window_handles' = window_handles
                      /\ current_handle' = current_handle
                      /\ driver' = driver /\ live' = live]_vars

\* close() called again after a close() that failed to close the window.
C38_Witness ==
    /\ out.op = "close"
    /\ ~out.had_session
    /\ out.earlier = "failed"
    /\ session = 0

\* The processes that are running.
Alive == {p \in 1..Len(procs) : procs[p].state = "running"}

\* C39: at every moment of run_agents.main at most MAX_CONCURRENT agent
\* processes are running, and no instance has two processes running at the
\* same time.
C39_BoundedConcurrency ==
    /\ Cardinality(Alive) <= MAX_CONCURRENT
    /\ \A p \in Alive, q \in Alive :
          procs[p].instance_id = procs[q].instance_id => p = q

\* MAX_CONCURRENT processes run, one of them the second launch of its
\* instance, while another instance waits in pending.
C39_Witness ==
    /\ Cardinality(Alive) = MAX_CONCURRENT
    /\ \E p \in Alive : procs[p].attempt > 0
    /\ pending # <<>>

\* The launches of the instance i, in order.
LaunchesOf(i) == {p \in 1..Len(procs) : procs[p].instance_id = i}

\* The instance i is finished: a process of it exited with code 0, or
\* MAX_RETRIES processes of it have failed.
Finished(i) ==
    \/ \E p \in LaunchesOf(i) : procs[p].state = "ok"
    \/ /\ Cardinality(LaunchesOf(i)) = MAX_RETRIES
       /\ \A p \in LaunchesOf(i) : procs[p].state = "failed"

\* No instance is launched more than MAX_RETRIES times, and a launch of an
\* instance after the first follows the failure of the one before.
LaunchesBounded ==
    \A i \in 0..(NUM_INSTANCES - 1) :
        /\ Cardinality(LaunchesOf(i)) <= MAX_RETRIES
        /\ \A p \in LaunchesOf(i), q \in LaunchesOf(i) :
              p < q => (procs[p].state = "failed" /\ procs[q].attempt = procs[p].attempt + 1)

\* C40: run_agents.main launches no instance more than MAX_RETRIES times,
\* launches an instance again only after its previous process exited with a
\* code other than 0, and, every launched process exiting in the end,
\* returns, which it does only with every instance finished.
C40_BoundedRetriesAndTermination ==
    /\ []LaunchesBounded
    /\ [](loop.pc = "done" => \A i \in 0..(NUM_INSTANCES - 1) : Finished(i))
    /\ <>(loop.pc = "done")

\* main has returned after an instance used all its attempts and another
\* succeeded at its second.
C40_Witness ==
    /\ loop.pc = "done"
    /\ \E i \in 0..(NUM_INSTANCES - 1) :
          Cardinality(LaunchesOf(i)) = MAX_RETRIES
          /\ \A p \in LaunchesOf(i) : procs[p].state = "failed"
    /\ \E i \in 0..(NUM_INSTANCES - 1) :
          Cardinality(LaunchesOf(i)) = MAX_RETRIES
          /\ \E p \in LaunchesOf(i) : procs[p].state = "ok"

====
